---- MODULE Spec2Model ----
(***************************************************************************)
(* A model of the GeoNode MapStore client fragment:                        *)
(*   - the save epics of epics/gnsave.js (gnSaveContent,                   *)
(*     gnSaveDirectContent, gnWatchStopPermissionsProcess),                *)
(*   - the ResourcesCompactCatalog component,                              *)
(*   - the translation functions of utils/ResourceUtils                    *)
(*     (src/unnamed/part_000).                                             *)
(* Each part has its own specification over the shared variables; the      *)
(* variables of the other parts stay at their idle values.                 *)
(***************************************************************************)
EXTENDS Integers, Sequences, FiniteSets, TLC

VARIABLES
    store,       \* the redux state the save epics read through the selectors
    directSub,   \* inner subscription of gnSaveDirectContent's switchMap
    saveSub,     \* inner subscription of gnSaveContent's switchMap
    log,         \* the actions emitted and the HTTP requests sent, in order
    nDirect,     \* SAVE_DIRECT_CONTENT actions dispatched so far
    nSave,       \* SAVE_CONTENT actions dispatched so far, by the UI or by an epic
    nDispatch    \* actions dispatched by the UI so far

\* ResourcesCompactCatalog: its props, state hooks and refs
VARIABLES
    request,              \* whether the request prop is given
    q,                    \* useState('')
    page,                 \* useState(1)
    loading,              \* useState(false)
    entries,              \* useState([])
    isNextPageAvailable,  \* useState(false)
    isMounted,            \* isMounted.current
    promise,              \* the request in flight with what its callbacks captured
    requested,            \* the q of the last request issued for page 1
    nRequests             \* requests issued so far

\* gnWatchStopPermissionsProcess
VARIABLES
    gnresource,  \* the resource id and compact permissions of the state
    stopped,     \* the payload of the last STOP_ASYNC_PROCESS
    stopOut      \* what the epic emitted for it

\* canCopyResource(resource, user)
VARIABLES
    copyArgs,    \* the arguments of the call
    copyResult   \* the value returned, once called

\* resourceToLayerConfig, resourceToLayers, toMapStoreMapConfig
VARIABLES
    layerInput,        \* the arguments of the calls (the same for every call)
    geoNodeSettings,   \* getConfigProp('geoNodeSettings')
    uuidCount,         \* how many ids uuid() has handed out
    layerOut           \* what each call returned, in call order

\* the translations called on objects and arrays that the caller still holds
VARIABLES
    heap,         \* the objects and arrays that can be written in place, by address
    pureCall,     \* the function called, its arguments and the heap before the call
    pureResult    \* the value returned, once called

\* DownloadResource: the connected DownloadButton
VARIABLES
    downloadProps,     \* the props of the last render
    downloadElement,   \* what the last render returned: <<>> is null
    downloadClicks     \* the clicks on the control, with the calls of onAction each made

\* gnSetMapThumbnail
VARIABLES
    thumbState,   \* the resource data and resource id of the redux state
    thumbSub,     \* inner subscription of the epic's switchMap
    thumbLog,     \* the requests sent, the responses received and the actions emitted
    nThumb        \* SET_MAP_THUMBNAIL actions dispatched so far

epicVars == <<store, directSub, saveSub, log, nDirect, nSave, nDispatch>>

catalogVars == <<request, q, page, loading, entries, isNextPageAvailable, isMounted,
                 promise, requested, nRequests>>

stopVars == <<gnresource, stopped, stopOut>>

copyVars == <<copyArgs, copyResult>>

layerVars == <<layerInput, geoNodeSettings, uuidCount, layerOut>>

pureVars == <<heap, pureCall, pureResult>>

downloadVars == <<downloadProps, downloadElement, downloadClicks>>

thumbVars == <<thumbState, thumbSub, thumbLog, nThumb>>

vars == <<epicVars, catalogVars, stopVars, copyVars, layerVars, pureVars, downloadVars, thumbVars>>

\* JavaScript's undefined / null
Nil == "undefined"

(***************************************************************************)
(* Each part at rest, and the variables each part leaves alone             *)
(***************************************************************************)
\* the save epics before any action
SaveIdle ==
    /\ store = <<>>
    /\ directSub = <<>>
    /\ saveSub = <<>>
    /\ log = <<>>
    /\ nDirect = 0
    /\ nSave = 0
    /\ nDispatch = 0

\* the catalog before it is mounted
CatalogIdle ==
    /\ request = FALSE
    /\ q = ""
    /\ page = 1
    /\ loading = FALSE
    /\ entries = <<>>
    /\ isNextPageAvailable = FALSE
    /\ isMounted = FALSE
    /\ promise = <<>>
    /\ requested = Nil
    /\ nRequests = 0

\* no STOP_ASYNC_PROCESS yet
StopIdle ==
    /\ gnresource = <<>>
    /\ stopped = <<>>
    /\ stopOut = <<>>

\* canCopyResource not called
CopyIdle ==
    /\ copyArgs = <<>>
    /\ copyResult = <<>>

\* no translation called
LayerIdle ==
    /\ layerInput = <<>>
    /\ geoNodeSettings = <<>>
    /\ uuidCount = 0
    /\ layerOut = <<>>

\* no translation called on the heap
PureIdle ==
    /\ heap = <<>>
    /\ pureCall = <<>>
    /\ pureResult = <<>>

\* DownloadButton not rendered
DownloadIdle ==
    /\ downloadProps = <<>>
    /\ downloadElement = <<>>
    /\ downloadClicks = <<>>

\* no SET_MAP_THUMBNAIL yet
ThumbIdle ==
    /\ thumbState = <<>>
    /\ thumbSub = <<>>
    /\ thumbLog = <<>>
    /\ nThumb = 0

nonEpicVars == <<catalogVars, stopVars, copyVars, layerVars, pureVars, downloadVars, thumbVars>>

nonCatalogVars == <<epicVars, stopVars, copyVars, layerVars, pureVars, downloadVars, thumbVars>>

nonStopVars == <<epicVars, catalogVars, copyVars, layerVars, pureVars, downloadVars, thumbVars>>

nonCopyVars == <<epicVars, catalogVars, stopVars, layerVars, pureVars, downloadVars, thumbVars>>

nonLayerVars == <<epicVars, catalogVars, stopVars, copyVars, pureVars, downloadVars, thumbVars>>

nonPureVars == <<epicVars, catalogVars, stopVars, copyVars, layerVars, downloadVars, thumbVars>>

nonDownloadVars == <<epicVars, catalogVars, stopVars, copyVars, layerVars, pureVars, thumbVars>>

nonThumbVars == <<epicVars, catalogVars, stopVars, copyVars, layerVars, pureVars, downloadVars>>

NonEpicIdle ==
    /\ CatalogIdle
    /\ StopIdle
    /\ CopyIdle
    /\ LayerIdle
    /\ PureIdle
    /\ DownloadIdle
    /\ ThumbIdle

NonCatalogIdle ==
    /\ SaveIdle
    /\ StopIdle
    /\ CopyIdle
    /\ LayerIdle
    /\ PureIdle
    /\ DownloadIdle
    /\ ThumbIdle

NonStopIdle ==
    /\ SaveIdle
    /\ CatalogIdle
    /\ CopyIdle
    /\ LayerIdle
    /\ PureIdle
    /\ DownloadIdle
    /\ ThumbIdle

NonCopyIdle ==
    /\ SaveIdle
    /\ CatalogIdle
    /\ StopIdle
    /\ LayerIdle
    /\ PureIdle
    /\ DownloadIdle
    /\ ThumbIdle

NonLayerIdle ==
    /\ SaveIdle
    /\ CatalogIdle
    /\ StopIdle
    /\ CopyIdle
    /\ PureIdle
    /\ DownloadIdle
    /\ ThumbIdle

NonPureIdle ==
    /\ SaveIdle
    /\ CatalogIdle
    /\ StopIdle
    /\ CopyIdle
    /\ LayerIdle
    /\ DownloadIdle
    /\ ThumbIdle

NonDownloadIdle ==
    /\ SaveIdle
    /\ CatalogIdle
    /\ StopIdle
    /\ CopyIdle
    /\ LayerIdle
    /\ PureIdle
    /\ ThumbIdle

NonThumbIdle ==
    /\ SaveIdle
    /\ CatalogIdle
    /\ StopIdle
    /\ CopyIdle
    /\ LayerIdle
    /\ PureIdle
    /\ DownloadIdle

Truthy(v) == v \notin {Nil, "false", "", "0"}

(***************************************************************************)
(* Bounds                                                                  *)
(***************************************************************************)
\* SAVE_DIRECT_CONTENT and SAVE_CONTENT actions the UI dispatches in one run
MaxDispatch == 1
\* requests the catalog issues in one run
MaxRequests == 3

(***************************************************************************)
(* ResourceUtils: ResourceTypes                                            *)
(***************************************************************************)
ResourceTypes ==
    [DATASET |-> "dataset", MAP |-> "map", DOCUMENT |-> "document",
     GEOSTORY |-> "geostory", DASHBOARD |-> "dashboard", VIEWER |-> "mapviewer"]

ResourceTypeSet == {ResourceTypes[k] : k \in DOMAIN ResourceTypes}

(***************************************************************************)
(* The log                                                                 *)
(***************************************************************************)
\* an action emitted by an epic ("direct" or "save") while it handles its n-th action
Emit(epic, n, type, arg) ==
    [kind |-> "emit", epic |-> epic, n |-> n, type |-> type, arg |-> arg]
\* an HTTP request sent by an epic while it handles its n-th action
Request(epic, n, name, arg) ==
    [kind |-> "request", epic |-> epic, n |-> n, type |-> name, arg |-> arg]
\* a response delivered to the live subscription of the epic's n-th action
Response(epic, n, name, arg) ==
    [kind |-> "response", epic |-> epic, n |-> n, type |-> name, arg |-> arg]

\* a rejection delivered to the live subscription, with the error it carries
Rejection(epic, n, name, error) ==
    [kind |-> "response", epic |-> epic, n |-> n, type |-> name, arg |-> "error",
     error |-> error]
\* how the axios.all of a direct save settled, with the state of its requests
Settled(n, arg, responses) ==
    [kind |-> "response", epic |-> "direct", n |-> n, type |-> "axios.all",
     arg |-> arg, responses |-> responses]
\* an action an epic receives, the n-th of its type, and the part of the
\* permissions payload the epic reads from the state at that moment
Dispatched(epic, n, type, action, payload) ==
    [kind |-> "action", epic |-> epic, n |-> n, type |-> type, arg |-> "",
     action |-> action, payload |-> payload]

\* the errors a rejected request carries: error.data may be missing
Errors == {[data |-> "error.data", message |-> "error.message"],
           [data |-> Nil, message |-> "error.message"]}

\* destructuring the undefined response of the dataset branch without id
TypeError == [data |-> Nil, message |-> "TypeError"]

(***************************************************************************)
(* The redux state read by the epics                                       *)
(***************************************************************************)
\* a geo-limits entry of the permissions payload: features.length is 0 or not
GeoLimitsInputs ==
    {<<>>,
     <<[id |-> "u1", features |-> 1]>>,
     <<[id |-> "u1", features |-> 1], [id |-> "g2", features |-> 0]>>}

Stores ==
    { [type |-> t, resourceId |-> "pk1", mapInfoId |-> m, geoLimits |-> g,
       compactPermissions |-> c, initalStyleName |-> i, currentStyleName |-> "styleA",
       timeseries |-> ts] :
        t \in ResourceTypeSet, m \in {Nil, "pk7"}, g \in GeoLimitsInputs,
        c \in {Nil, "compactPermissions"}, i \in {Nil, "styleA", "styleB"},
        ts \in BOOLEAN }

\* only the map viewer has a mapInfo, only a dataset has styles and time series
StoreInputs ==
    { s \in Stores :
        /\ (s.type # ResourceTypes.MAP => s.mapInfoId = Nil)
        /\ (s.type # ResourceTypes.DATASET => s.initalStyleName = Nil /\ ~s.timeseries) }

(***************************************************************************)
(* gnSaveContent                                                           *)
(***************************************************************************)
\* a variant that takes every style of a saved dataset as modified
StyleModifiedAlways(state, id) ==
    Truthy(id)

\* the style of the selected node differs from the first available style
StyleModified(state, id) ==
    /\ Truthy(id)
    /\ Truthy(state.initalStyleName)
    /\ state.currentStyleName # state.initalStyleName

\* the default-style request and the actions to dispatch once the save is done
setDefaultStyle(state, id) ==
    IF StyleModified(state, id)
    THEN [request |-> <<"updateDefaultStyle">>,
          actions |-> <<"updateSettingsParams", "setSelectedLayer">>]
    ELSE [request |-> <<>>, actions |-> <<>>]

\* SaveAPI[contentType](state, id, body): the requests of the save, in the
\* order they are sent. first: sent on subscription; then: sent once first
\* has succeeded; result: "response" when the requests decide the outcome,
\* "none" when the factory returns false (defer subscribes to nothing) and
\* "throws" when the promise chain rejects by itself.
SaveAPI(state, contentType, id) ==
    CASE contentType = ResourceTypes.MAP ->
            [first |-> <<IF Truthy(id) THEN "updateMap" ELSE "createMap">>,
             then |-> <<>>, result |-> "response"]
      [] contentType \in {ResourceTypes.GEOSTORY, ResourceTypes.DASHBOARD,
                          ResourceTypes.VIEWER} ->
            [first |-> <<IF Truthy(id) THEN "updateGeoApp" ELSE "createGeoApp">>,
             then |-> <<>>, result |-> "response"]
      [] contentType = ResourceTypes.DOCUMENT ->
            IF Truthy(id)
            THEN [first |-> <<"updateDocument">>, then |-> <<>>, result |-> "response"]
            ELSE [first |-> <<>>, then |-> <<>>, result |-> "none"]
      [] contentType = ResourceTypes.DATASET ->
            LET style == setDefaultStyle(state, id).request
                all == <<"updateDataset", "updateDatasetTimeSeries">>
            IN  IF ~Truthy(id)
                THEN [first |-> <<>>, then |-> <<>>, result |-> "throws"]
                ELSE IF style # <<>>
                THEN [first |-> style, then |-> all, result |-> "response"]
                ELSE [first |-> all, then |-> <<>>, result |-> "response"]

\* the additional actions SaveAPI appends to its response
ResponseActions(state, contentType, id) ==
    IF contentType = ResourceTypes.DATASET
    THEN (IF state.timeseries THEN <<"updateNode">> ELSE <<>>)
         \o setDefaultStyle(state, id).actions
    ELSE <<>>

\* castArray(response): the saved resource, then the additional actions
SaveAPIResponse(state, contentType, id) ==
    <<"resource">> \o ResponseActions(state, contentType, id)

\* a variant that dispatches every element of the response
AdditionalActionsWithResource(response) ==
    response

\* const [resource, ...actions] = castArray(response)
AdditionalActions(response) ==
    Tail(response)

\* the set of the elements of a sequence
Range(seq) == {seq[i] : i \in DOMAIN seq}

\* a variant that reports the message even when the error carries data
SaveErrorActionsMessage(n, action, error) ==
    <<Emit("save", n, "saveError", error.message)>>
    \o (IF Truthy(action.showNotifications)
        THEN <<Emit("save", n, "errorNotification", "map.mapError.errorDefault")>>
        ELSE <<>>)

\* the catch of gnSaveContent: saveError and, if asked for, one notification
SaveErrorActions(n, action, error) ==
    <<Emit("save", n, "saveError",
           IF Truthy(error.data) THEN error.data ELSE error.message)>>
    \o (IF Truthy(action.showNotifications)
        THEN <<Emit("save", n, "errorNotification", "map.mapError.errorDefault")>>
        ELSE <<>>)

\* the notification that follows updateResource
SaveNotification(n, action) ==
    IF Truthy(action.showNotifications)
    THEN <<IF action.showNotifications = "true"
           THEN Emit("save", n, "successNotification", "saveDialog.saveSuccessMessage")
           ELSE Emit("save", n, "warningNotification", action.showNotifications)>>
    ELSE <<>>

\* what the response of the save request makes gnSaveContent emit or do
SaveResponseActions(n, action, state, contentType) ==
    IF action.reload
    THEN IF contentType = ResourceTypes.VIEWER
         THEN <<Emit("save", n, "manageLinkedResource", "linkResource")>>
         ELSE <<[kind |-> "effect", epic |-> "save", n |-> n,
                 type |-> "locationReload", arg |-> ""]>>
    ELSE <<Emit("save", n, "saveSuccess", "resource"),
           Emit("save", n, "setResource", "resource"),
           Emit("save", n, "updateResource", "resource")>>
         \o SaveNotification(n, action)
         \o [i \in DOMAIN AdditionalActions(SaveAPIResponse(state, contentType, action.id)) |->
                Emit("save", n, AdditionalActions(SaveAPIResponse(state, contentType, action.id))[i],
                     "additional")]

\* a variant that forgets the reload branch
SendsCompactPermissionsOnReload(action, compactPermissions) ==
    Truthy(compactPermissions)

\* whether the compact permissions are sent once the save has succeeded
SendsCompactPermissions(action, compactPermissions) ==
    ~action.reload /\ Truthy(compactPermissions)

\* startAsyncProcess(payload) of the compact-permissions request
PermissionsProcess(n, ok) ==
    Emit("save", n, "startAsyncProcess", IF ok THEN "output" ELSE "error")

RequestsOf(n, names, id) == [i \in DOMAIN names |-> Request("save", n, names[i], id)]

\* a variant that emits savingResource after what the source emits at once
endWith(epic, n, out) ==
    out \o <<Emit(epic, n, "savingResource", "")>>

\* .startWith(savingResource()): emitted on subscription, before the deferred
\* factory sends its requests
startWith(epic, n, out) ==
    <<Emit(epic, n, "savingResource", "")>> \o out

\* the switchMap body of gnSaveContent up to the first asynchronous step:
\* the subscription it leaves and what it emits and sends
StartSave(n, action, state) ==
    LET contentType == state.type
        api == SaveAPI(state, contentType, action.id)
        sub == [n |-> n, action |-> action, contentType |-> contentType,
                compactPermissions |-> state.compactPermissions,
                phase |-> "save", pending |-> Range(api.first), then |-> api.then]
        received == <<Dispatched("save", n, "SAVE_CONTENT",
                                 action, state.compactPermissions)>>
    IN  CASE api.result = "response" ->
                [sub |-> <<sub>>,
                 out |-> received \o startWith("save", n, RequestsOf(n, api.first, action.id))]
          [] api.result = "none" ->
                [sub |-> <<[sub EXCEPT !.phase = "never"]>>,
                 out |-> received \o startWith("save", n, <<>>)]
          [] api.result = "throws" ->
                [sub |-> <<>>,
                 out |-> received \o startWith("save", n, SaveErrorActions(n, action, TypeError))]

\* SAVE_CONTENT actions the UI dispatches
UserSaveActions ==
    [id : {Nil, "pk1"}, reload : BOOLEAN, showNotifications : {Nil, "true"}]

(***************************************************************************)
(* gnSaveDirectContent                                                     *)
(***************************************************************************)
\* mapInfo?.id || getResourceId(state)
ResourceId(state) ==
    IF Truthy(state.mapInfoId) THEN state.mapInfoId ELSE state.resourceId

\* an entry without features is deleted, any other is updated
GeoLimitsRequest(limits) ==
    IF limits.features = 0 THEN "deleteGeoLimits" ELSE "updateGeoLimits"

\* the requests axios.all sends at once: the resource, then one per geo-limits entry
DirectRequests(state) ==
    <<"getResourceByPk">>
    \o [i \in DOMAIN state.geoLimits |-> GeoLimitsRequest(state.geoLimits[i])]

\* the responses that carry the error flag set by the requests' own catch
geoLimitsErrors(geoLimitsResponses) ==
    SelectSeq(geoLimitsResponses, LAMBDA r : r = "error")

\* a variant that never warns
DirectShowNotificationsTrue(geoLimitsResponses) == "true"

\* the fourth argument of saveContent
DirectShowNotifications(geoLimitsResponses) ==
    IF Len(geoLimitsErrors(geoLimitsResponses)) > 0
    THEN "gnviewer.warningGeoLimitsSaveMessage"
    ELSE "true"

\* the action saveContent(resourceId, metadata, false, showNotifications) builds
DirectSaveContent(resourceId, geoLimitsResponses) ==
    [id |-> resourceId, reload |-> FALSE,
     showNotifications |-> DirectShowNotifications(geoLimitsResponses)]

\* a variant that also resets the geo limits after an error
DirectErrorActionsReset(d, error) ==
    <<Emit("direct", d, "saveError",
           IF Truthy(error.data) THEN error.data ELSE error.message),
      Emit("direct", d, "errorNotification", error.message),
      Emit("direct", d, "resetGeoLimits", "")>>

\* the catch of gnSaveDirectContent
DirectErrorActions(d, error) ==
    <<Emit("direct", d, "saveError",
           IF Truthy(error.data) THEN error.data ELSE error.message),
      Emit("direct", d, "errorNotification", error.message)>>

\* the switchMap after axios.all: saveContent, which gnSaveContent handles as
\* it is dispatched, and then resetGeoLimits
DirectResolved(d, s, sub, state) ==
    LET geo == SubSeq(sub.status, 2, Len(sub.status))
        action == DirectSaveContent(sub.resourceId, geo)
        started == StartSave(s, action, state)
    IN  [sub |-> started.sub,
         out |-> <<[kind |-> "emit", epic |-> "direct", n |-> d, type |-> "saveContent",
                    arg |-> action.showNotifications, id |-> action.id,
                    reload |-> action.reload, save |-> s]>>
                 \o started.out
                 \o <<Emit("direct", d, "resetGeoLimits", "")>>]

(***************************************************************************)
(* The save epics as a state machine                                       *)
(***************************************************************************)
SaveInit ==
    /\ NonEpicIdle
    /\ store \in StoreInputs
    /\ directSub = <<>>
    /\ saveSub = <<>>
    /\ log = <<>>
    /\ nDirect = 0
    /\ nSave = 0
    /\ nDispatch = 0

\* SAVE_DIRECT_CONTENT: a newer action replaces the subscription of the older
DispatchSaveDirectContent ==
    /\ nDispatch < MaxDispatch
    /\ LET d == nDirect + 1
           reqs == DirectRequests(store)
       IN  /\ nDirect' = d
           /\ directSub' = <<[n |-> d, resourceId |-> ResourceId(store), reqs |-> reqs,
                              status |-> [i \in DOMAIN reqs |-> "pending"]]>>
           /\ log' = log \o <<Dispatched("direct", d, "SAVE_DIRECT_CONTENT", <<>>, store.geoLimits)>>
                         \o startWith("direct", d,
                                [i \in DOMAIN reqs |->
                                    Request("direct", d, reqs[i], ResourceId(store))])
    /\ nDispatch' = nDispatch + 1
    /\ UNCHANGED <<store, saveSub, nSave>>
    /\ UNCHANGED nonEpicVars

\* a request of the direct save settles: request 1 is getResourceByPk, whose
\* failure rejects axios.all; a failed geo-limits request resolves to an error
\* object. The log records how axios.all settles, not each response.
DirectResponse(i, ok, error) ==
    /\ directSub # <<>>
    /\ i \in DOMAIN directSub[1].status
    /\ directSub[1].status[i] = "pending"
    /\ LET sub == directSub[1]
           settled == [sub EXCEPT !.status[i] = IF ok THEN "ok" ELSE "error"]
       IN  IF i = 1 /\ ~ok
           THEN /\ directSub' = <<>>
                /\ log' = log \o <<Settled(sub.n, "error", settled.status)>>
                              \o DirectErrorActions(sub.n, error)
                /\ UNCHANGED <<saveSub, nSave>>
           ELSE IF \A j \in DOMAIN settled.status : settled.status[j] # "pending"
           THEN LET resolved == DirectResolved(sub.n, nSave + 1, settled, store)
                IN  /\ directSub' = <<>>
                    /\ nSave' = nSave + 1
                    /\ saveSub' = resolved.sub
                    /\ log' = log \o <<Settled(sub.n, "ok", settled.status)>>
                                  \o resolved.out
           ELSE /\ directSub' = <<settled>>
                /\ UNCHANGED <<log, saveSub, nSave>>
    /\ UNCHANGED <<store, nDirect, nDispatch>>
    /\ UNCHANGED nonEpicVars

\* SAVE_CONTENT dispatched by the UI
DispatchSaveContent(action) ==
    /\ nDispatch < MaxDispatch
    /\ LET started == StartSave(nSave + 1, action, store)
       IN  /\ saveSub' = started.sub
           /\ log' = log \o started.out
    /\ nSave' = nSave + 1
    /\ nDispatch' = nDispatch + 1
    /\ UNCHANGED <<store, directSub, nDirect>>
    /\ UNCHANGED nonEpicVars

\* a request of the save settles
SaveResponse(name, ok, error) ==
    /\ saveSub # <<>>
    /\ saveSub[1].phase = "save"
    /\ name \in saveSub[1].pending
    /\ LET sub == saveSub[1]
           received == IF ok THEN Response("save", sub.n, name, "ok")
                       ELSE Rejection("save", sub.n, name, error)
           left == sub.pending \ {name}
       IN  IF ~ok
           THEN /\ saveSub' = <<>>
                /\ log' = log \o <<received>> \o SaveErrorActions(sub.n, sub.action, error)
           ELSE IF left # {}
           THEN /\ saveSub' = <<[sub EXCEPT !.pending = left]>>
                /\ log' = log \o <<received>>
           ELSE IF sub.then # <<>>
           THEN /\ saveSub' = <<[sub EXCEPT !.pending = Range(sub.then), !.then = <<>>]>>
                /\ log' = log \o <<received>> \o RequestsOf(sub.n, sub.then, sub.action.id)
           ELSE IF SendsCompactPermissions(sub.action, sub.compactPermissions)
           THEN /\ saveSub' = <<[sub EXCEPT !.phase = "permissions", !.pending = {}]>>
                /\ log' = log \o <<received>>
                              \o SaveResponseActions(sub.n, sub.action, store, sub.contentType)
                              \o <<Request("save", sub.n, "updateCompactPermissionsByPk",
                                           sub.action.id)>>
           ELSE /\ saveSub' = <<>>
                /\ log' = log \o <<received>>
                              \o SaveResponseActions(sub.n, sub.action, store, sub.contentType)
    /\ UNCHANGED <<store, directSub, nDirect, nSave, nDispatch>>
    /\ UNCHANGED nonEpicVars

\* the compact-permissions request settles: its own catch turns a failure
\* into a payload with an error
CompactPermissionsResponse(ok) ==
    /\ saveSub # <<>>
    /\ saveSub[1].phase = "permissions"
    /\ LET sub == saveSub[1]
       IN  log' = log \o <<Response("save", sub.n, "updateCompactPermissionsByPk",
                                    IF ok THEN "ok" ELSE "error"),
                           PermissionsProcess(sub.n, ok)>>
    /\ saveSub' = <<>>
    /\ UNCHANGED <<store, directSub, nDirect, nSave, nDispatch>>
    /\ UNCHANGED nonEpicVars

SaveNext ==
    \/ DispatchSaveDirectContent
    \/ \E i \in 1..3, ok \in BOOLEAN, error \in Errors : DirectResponse(i, ok, error)
    \/ \E action \in UserSaveActions : DispatchSaveContent(action)
    \/ \E name \in {"updateMap", "createMap", "updateGeoApp", "createGeoApp",
                    "updateDocument", "updateDefaultStyle", "updateDataset",
                    "updateDatasetTimeSeries"},
          ok \in BOOLEAN, error \in Errors : SaveResponse(name, ok, error)
    \/ \E ok \in BOOLEAN : CompactPermissionsResponse(ok)

Spec == SaveInit /\ [][SaveNext]_vars

(***************************************************************************)
(* Reading the log                                                         *)
(***************************************************************************)
IsEmit(e, epic, type) == e.kind = "emit" /\ e.epic = epic /\ e.type = type

IsRequest(e, epic, type) == e.kind = "request" /\ e.epic = epic /\ e.type = type

\* the requests that create or update the resource data
ResourceUpdateRequests ==
    {"updateMap", "createMap", "updateGeoApp", "createGeoApp", "updateDocument",
     "updateDataset", "updateDatasetTimeSeries"}

\* all the requests SaveAPI sends
SaveRequests == ResourceUpdateRequests \cup {"updateDefaultStyle"}

\* the requests that send a part of the permissions payload
PermissionsRequests ==
    {"updateGeoLimits", "deleteGeoLimits", "updateCompactPermissionsByPk"}

\* the SAVE_CONTENT actions a direct save dispatched
SavesOf(d) ==
    {log[k].save : k \in {i \in DOMAIN log : IsEmit(log[i], "direct", "saveContent")
                                               /\ log[i].n = d}}

\* the n-th SAVE_CONTENT action as gnSaveContent received it
SaveContentAt(n) ==
    log[CHOOSE k \in DOMAIN log : log[k].kind = "action" /\ log[k].epic = "save"
                                   /\ log[k].n = n]

\* the direct save a request of the permissions payload belongs to, if any
DirectSavesOf(e) ==
    IF e.epic = "direct" THEN {e.n}
    ELSE {d \in 1..nDirect : e.n \in SavesOf(d)}

(***************************************************************************)
(* C1: in a direct save no request of the permissions payload (geo-limits  *)
(* update, geo-limits delete, compact-permissions update) is sent before   *)
(* the request that updates the resource data has completed.               *)
(***************************************************************************)
C1_PermissionsAfterResourceUpdate ==
    \A i \in DOMAIN log :
        (log[i].kind = "request" /\ log[i].type \in PermissionsRequests) =>
            \A d \in DirectSavesOf(log[i]) :
                \E j \in 1..(i - 1) :
                    /\ log[j].kind = "response" /\ log[j].epic = "save"
                    /\ log[j].arg = "ok"
                    /\ log[j].type \in ResourceUpdateRequests
                    /\ log[j].n \in SavesOf(d)

\* the positions where save n emitted an action of one of the types
EmittedBy(epic, n, types) ==
    {k \in DOMAIN log : log[k].kind = "emit" /\ log[k].epic = epic /\ log[k].n = n
                        /\ log[k].type \in types}

\* a response of a request of SaveAPI delivered to save n
IsSaveResponse(e, arg) ==
    e.kind = "response" /\ e.epic = "save" /\ e.arg = arg /\ e.type \in SaveRequests

(***************************************************************************)
(* C2: the compact-permissions update request is sent only when the        *)
(* permissions payload holds compactPermissions, action.reload is false    *)
(* and the save request of the same SAVE_CONTENT has already succeeded; it *)
(* is never sent when the save request fails.                              *)
(***************************************************************************)
C2_CompactPermissionsOnlyAfterSuccess ==
    \A i \in DOMAIN log :
        IsRequest(log[i], "save", "updateCompactPermissionsByPk") =>
            LET n == log[i].n
                received == SaveContentAt(n)
            IN  /\ Truthy(received.payload)
                /\ ~received.action.reload
                \* a resource update of this save has succeeded before
                /\ \E j \in 1..(i - 1) :
                       /\ IsSaveResponse(log[j], "ok") /\ log[j].n = n
                       /\ log[j].type \in ResourceUpdateRequests
                \* every request of this save has succeeded before
                /\ \A k \in DOMAIN log :
                       (log[k].kind = "request" /\ log[k].epic = "save" /\ log[k].n = n
                        /\ log[k].type \in SaveRequests) =>
                           \E j \in (k + 1)..(i - 1) :
                               /\ IsSaveResponse(log[j], "ok") /\ log[j].n = n
                               /\ log[j].type = log[k].type
                \* and none has failed
                /\ \A j \in DOMAIN log : ~(IsSaveResponse(log[j], "error") /\ log[j].n = n)

C2_Witness ==
    \E i \in DOMAIN log : IsRequest(log[i], "save", "updateCompactPermissionsByPk")

(***************************************************************************)
(* C3: when the save request of a SAVE_CONTENT fails, gnSaveContent emits  *)
(* saveError carrying the error's data (or its message), plus one error    *)
(* notification exactly when action.showNotifications is truthy, and none  *)
(* of saveSuccess, setResource, updateResource, startAsyncProcess.         *)
(***************************************************************************)
C3_SaveErrorOnFailure ==
    \A i \in DOMAIN log :
        IsSaveResponse(log[i], "error") =>
            LET n == log[i].n
                action == SaveContentAt(n).action
                error == log[i].error
            IN  /\ i + 1 \in DOMAIN log
                /\ log[i + 1] = Emit("save", n, "saveError",
                                     IF error.data # Nil THEN error.data ELSE error.message)
                /\ EmittedBy("save", n, {"saveError"}) = {i + 1}
                /\ EmittedBy("save", n, {"errorNotification"}) =
                       IF action.showNotifications \in {"true", "gnviewer.warningGeoLimitsSaveMessage"}
                       THEN {i + 2} ELSE {}
                /\ EmittedBy("save", n, {"saveSuccess", "setResource", "updateResource",
                                         "startAsyncProcess"}) = {}

C3_Witness ==
    \E i \in DOMAIN log :
        /\ IsSaveResponse(log[i], "error")
        /\ log[i].error.data # Nil
        /\ SaveContentAt(log[i].n).action.showNotifications = "true"

(***************************************************************************)
(* C4: the failure of a geo-limits request does not abort the direct save: *)
(* axios.all is rejected only by getResourceByPk, and when it resolves     *)
(* saveContent is dispatched for the resource with reload false and with   *)
(* showNotifications the geo-limits warning exactly when at least one      *)
(* geo-limits request failed, and true when none failed.                   *)
(***************************************************************************)
C4_GeoLimitsFailureDoesNotAbort ==
    \A i \in DOMAIN log :
        (log[i].kind = "response" /\ log[i].epic = "direct") =>
            LET d == log[i].n
                responses == log[i].responses
                geoFailed == \E k \in 2..Len(responses) : responses[k] = "error"
            IN  /\ log[i].arg = "error" => responses[1] = "error"
                /\ responses[1] = "ok" =>
                       /\ log[i].arg = "ok"
                       /\ i + 1 \in DOMAIN log
                       /\ IsEmit(log[i + 1], "direct", "saveContent")
                       /\ log[i + 1].n = d
                       /\ log[i + 1].id = (IF store.mapInfoId # Nil THEN store.mapInfoId
                                           ELSE store.resourceId)
                       /\ log[i + 1].reload = FALSE
                       /\ log[i + 1].arg = (IF geoFailed
                                            THEN "gnviewer.warningGeoLimitsSaveMessage"
                                            ELSE "true")

C4_Witness ==
    \E i \in DOMAIN log :
        /\ IsEmit(log[i], "direct", "saveContent")
        /\ log[i].arg = "gnviewer.warningGeoLimitsSaveMessage"
        /\ log[i - 1].responses[1] = "ok"

(***************************************************************************)
(* C5: if getResourceByPk fails, the direct save emits saveError and one   *)
(* error notification and neither saveContent nor resetGeoLimits;          *)
(* resetGeoLimits is emitted exactly when saveContent is, and after it.    *)
(***************************************************************************)
C5_DirectErrorAndReset ==
    /\ \A i \in DOMAIN log :
           (log[i].kind = "response" /\ log[i].epic = "direct"
            /\ log[i].responses[1] = "error") =>
               LET d == log[i].n
               IN  /\ EmittedBy("direct", d, {"saveError"}) = {i + 1}
                   /\ EmittedBy("direct", d, {"errorNotification"}) = {i + 2}
                   /\ EmittedBy("direct", d, {"saveContent", "resetGeoLimits"}) = {}
    /\ \A d \in 1..nDirect :
           LET saved == EmittedBy("direct", d, {"saveContent"})
               reset == EmittedBy("direct", d, {"resetGeoLimits"})
           IN  /\ Cardinality(saved) = Cardinality(reset)
               /\ Cardinality(saved) <= 1
               /\ \A k \in reset : \E j \in saved : j < k

C5_Witness ==
    \E i \in DOMAIN log :
        /\ log[i].kind = "response" /\ log[i].epic = "direct"
        /\ log[i].responses[1] = "error"
        /\ \E k \in 2..Len(log[i].responses) : log[i].responses[k] = "pending"

(***************************************************************************)
(* ResourcesCompactCatalog                                                 *)
(***************************************************************************)
\* the search texts the input control may deliver
SearchTexts == {"", "a", "ab"}

\* the response of the request prop for a page of a search: its resources
\* and whether a next page is available
CatalogResponse(params, more) ==
    [resources |-> <<[pk |-> <<params.q, params.page>>]>>, isNextPageAvailable |-> more]

\* defaultProps.responseToEntries
responseToEntries(res) == res.resources

\* updateRequest.current(options) as the render that follows the state
\* change defines it: nothing is requested while loading or without request
UpdateRequestIssues(isLoading, hasRequest) == ~isLoading /\ hasRequest

\* the state after the mount effects: [q] has called updateRequest for page 1
CatalogInit ==
    /\ NonCatalogIdle
    /\ request \in BOOLEAN
    /\ q = ""
    /\ page = 1
    /\ entries = <<>>
    /\ isNextPageAvailable = FALSE
    /\ isMounted = TRUE
    /\ loading = UpdateRequestIssues(FALSE, request)
    /\ promise = IF UpdateRequestIssues(FALSE, request)
                 THEN <<[q |-> "", page |-> 1, entries |-> <<>>]>> ELSE <<>>
    /\ requested = IF UpdateRequestIssues(FALSE, request) THEN "" ELSE Nil
    /\ nRequests = IF UpdateRequestIssues(FALSE, request) THEN 1 ELSE 0

\* InputControl onChange (or the clear button): setQ(value), then the [q]
\* effect: setPage(1) and updateRequest.current({ page: 1, reset: true })
ChangeQ(value) ==
    /\ isMounted
    /\ value # q
    /\ nRequests < MaxRequests
    /\ q' = value
    /\ page' = 1
    /\ IF UpdateRequestIssues(loading, request)
       THEN /\ loading' = TRUE
            /\ promise' = <<[q |-> value, page |-> 1, entries |-> entries]>>
            /\ requested' = value
            /\ nRequests' = nRequests + 1
       ELSE UNCHANGED <<loading, promise, requested, nRequests>>
    /\ UNCHANGED <<request, entries, isNextPageAvailable, isMounted>>
    /\ UNCHANGED nonCatalogVars

\* useInfiniteScroll: onLoad when shouldScroll(), then the [page] effect
ScrollLoad ==
    /\ isMounted
    /\ ~loading /\ isNextPageAvailable
    /\ nRequests < MaxRequests
    /\ page' = page + 1
    /\ IF page + 1 > 1 /\ UpdateRequestIssues(loading, request)
       THEN /\ loading' = TRUE
            /\ promise' = <<[q |-> q, page |-> page + 1, entries |-> entries]>>
            /\ nRequests' = nRequests + 1
       ELSE UNCHANGED <<loading, promise, nRequests>>
    /\ UNCHANGED <<request, q, entries, isNextPageAvailable, isMounted, requested>>
    /\ UNCHANGED nonCatalogVars

\* the request resolves: the then callback with the entries it captured
RequestResolves(more) ==
    /\ promise # <<>>
    /\ LET options == promise[1]
           response == CatalogResponse(options, more)
           newEntries == responseToEntries(response)
       IN  IF isMounted
           THEN /\ isNextPageAvailable' = response.isNextPageAvailable
                /\ entries' = IF options.page = 1 THEN newEntries
                              ELSE options.entries \o newEntries
                /\ loading' = FALSE
           ELSE UNCHANGED <<isNextPageAvailable, entries, loading>>
    /\ promise' = <<>>
    /\ UNCHANGED <<request, q, page, isMounted, requested, nRequests>>
    /\ UNCHANGED nonCatalogVars

\* the request is rejected: the catch callback
RequestRejects ==
    /\ promise # <<>>
    /\ loading' = IF isMounted THEN FALSE ELSE loading
    /\ promise' = <<>>
    /\ UNCHANGED <<request, q, page, entries, isNextPageAvailable, isMounted, requested,
                   nRequests>>
    /\ UNCHANGED nonCatalogVars

\* the cleanup of the mount effect
Unmount ==
    /\ isMounted
    /\ isMounted' = FALSE
    /\ UNCHANGED <<request, q, page, loading, entries, isNextPageAvailable, promise,
                   requested, nRequests>>
    /\ UNCHANGED nonCatalogVars

CatalogNext ==
    \/ \E value \in SearchTexts : ChangeQ(value)
    \/ ScrollLoad
    \/ \E more \in BOOLEAN : RequestResolves(more)
    \/ RequestRejects
    \/ Unmount

SpecCatalog == CatalogInit /\ [][CatalogNext]_vars

(***************************************************************************)
(* C6: whenever the search text q changes while the component is mounted   *)
(* and a request function is given, a request for page 1 carrying the new  *)
(* q is issued and, once it succeeds, the entries are those of its         *)
(* response. Stated on the states in which the component is at rest        *)
(* (mounted, nothing loading, so nothing more will be requested unless the *)
(* user acts again): the last request for page 1 carried the current q.    *)
(***************************************************************************)
C6_SearchIsRequested ==
    (isMounted /\ request /\ ~loading) => requested = q

(***************************************************************************)
(* gnWatchStopPermissionsProcess                                           *)
(***************************************************************************)
ProcessTypes == [PERMISSIONS_RESOURCE |-> "permissions", COPY_RESOURCE |-> "copy"]

ProcessStatus == [FAILED |-> "failed", FINISHED |-> "finished", RUNNING |-> "running"]

\* payloads of STOP_ASYNC_PROCESS: the payload gnSaveContent gave to
\* startAsyncProcess (resource, error or output, processType) with the
\* status of the output
StopPayloads ==
    [processType : {ProcessTypes.PERMISSIONS_RESOURCE, ProcessTypes.COPY_RESOURCE},
     resourcePk : {Nil, "pk1", "pk2"},
     error : {Nil, "error.data.detail", "true"},
     outputStatus : {Nil, ProcessStatus.FINISHED, ProcessStatus.FAILED}]

\* the state the epic reads: getResourceId and getCompactPermissions
StopStates ==
    [id : {Nil, "pk1", "pk2"}, compactPermissions : {"permissionsA", "permissionsB"}]

StopEmit(type, arg) == [type |-> type, arg |-> arg]

\* a variant that looks at the error only
isErrorWithoutStatus(payload) == Truthy(payload.error)

\* action?.payload?.error || action?.payload?.output?.status === ProcessStatus.FAILED
isError(payload) ==
    Truthy(payload.error) \/ payload.outputStatus = ProcessStatus.FAILED

\* the switchMap of the epic: what it emits for a permissions payload
WatchStopPermissionsProcess(state, payload) ==
    IF state.id # payload.resourcePk
    THEN <<>>
    ELSE IF isError(payload)
    THEN <<StopEmit("errorNotification", "gnviewer.errorCompactPermissionsMessage")>>
    ELSE <<StopEmit("setResourceCompactPermissions", state.compactPermissions)>>

StopInit ==
    /\ NonStopIdle
    /\ gnresource \in StopStates
    /\ stopped = <<>>
    /\ stopOut = <<>>

\* STOP_ASYNC_PROCESS: the filter lets only the permissions processes through
StopAsyncProcess(payload) ==
    /\ stopped' = <<payload>>
    /\ stopOut' = IF payload.processType = ProcessTypes.PERMISSIONS_RESOURCE
                  THEN WatchStopPermissionsProcess(gnresource, payload)
                  ELSE <<>>
    /\ UNCHANGED gnresource
    /\ UNCHANGED nonStopVars

StopNext == \E payload \in StopPayloads : StopAsyncProcess(payload)

SpecStop == StopInit /\ [][StopNext]_vars

(***************************************************************************)
(* C9: for a STOP_ASYNC_PROCESS of type permissions: if the payload's      *)
(* resource pk differs from the current resource id nothing is emitted;    *)
(* otherwise, if the payload has an error or its output status is FAILED,  *)
(* exactly one error notification is emitted and the compact permissions   *)
(* are not reset; otherwise exactly one setResourceCompactPermissions with *)
(* the current compact permissions is emitted.                             *)
(***************************************************************************)
C9_StopPermissionsProcess ==
    (stopped # <<>> /\ stopped[1].processType = "permissions") =>
        LET payload == stopped[1]
            failed == payload.error # Nil \/ payload.outputStatus = "failed"
        IN  CASE payload.resourcePk # gnresource.id -> stopOut = <<>>
              [] payload.resourcePk = gnresource.id /\ failed ->
                    /\ Len(stopOut) = 1
                    /\ stopOut[1].type = "errorNotification"
              [] payload.resourcePk = gnresource.id /\ ~failed ->
                    stopOut = <<[type |-> "setResourceCompactPermissions",
                                 arg |-> gnresource.compactPermissions]>>

C9_Witness ==
    /\ stopped # <<>>
    /\ stopped[1].processType = "permissions"
    /\ stopped[1].resourcePk = gnresource.id
    /\ stopped[1].error = Nil
    /\ stopped[1].outputStatus = "failed"
    /\ Len(stopOut) = 1

(***************************************************************************)
(* ResourceUtils: canCopyResource                                          *)
(* JavaScript values are "true", "false", "undefined"; an optional object  *)
(* or array is a sequence of length 0 (missing) or 1.                      *)
(***************************************************************************)
\* a && b
And(a, b) == IF Truthy(a) THEN b ELSE a

\* object?.perms?.includes(perm)
PermsIncludes(object, perm) ==
    IF object = <<>> \/ object[1].perms = <<>> THEN "undefined"
    ELSE IF perm \in object[1].perms[1] THEN "true" ELSE "false"

\* object?.key of an optional object
Get(object, key) == IF object = <<>> THEN "undefined" ELSE object[1][key]

\* !!value
Boolean(value) == IF Truthy(value) THEN "true" ELSE "false"

\* a variant that returns the conjunction itself
canCopyResourceRaw(resource, user) ==
    LET canAdd == PermsIncludes(user, "add_resource")
        canCopy == Get(resource, "is_copyable")
        resourceType == Get(resource, "resource_type")
    IN  IF resourceType \in {ResourceTypes.DATASET, ResourceTypes.DOCUMENT}
        THEN LET canDownload == Boolean(PermsIncludes(resource, "download_resourcebase"))
             IN  And(And(canAdd, canCopy), canDownload)
        ELSE And(canAdd, canCopy)

canCopyResource(resource, user) ==
    LET canAdd == PermsIncludes(user, "add_resource")
        canCopy == Get(resource, "is_copyable")
        resourceType == Get(resource, "resource_type")
    IN  IF resourceType \in {ResourceTypes.DATASET, ResourceTypes.DOCUMENT}
        THEN LET canDownload == Boolean(PermsIncludes(resource, "download_resourcebase"))
             IN  IF Truthy(And(And(canAdd, canCopy), canDownload)) THEN "true" ELSE "false"
        ELSE IF Truthy(And(canAdd, canCopy)) THEN "true" ELSE "false"

\* the permission lists of the inputs: missing, empty, or holding the permission
PermsInputs(perm) == {<<>>, <<{}>>, <<{"view_resourcebase"}>>, <<{perm, "view_resourcebase"}>>}

CopyUsers == {<<>>} \cup {<<[perms |-> p]>> : p \in PermsInputs("add_resource")}

CopyResources ==
    {<<>>} \cup
    {<<[is_copyable |-> c, resource_type |-> t, perms |-> p]>> :
        c \in {"undefined", "true", "false"},
        t \in ResourceTypeSet \cup {"undefined"},
        p \in PermsInputs("download_resourcebase")}

CopyInit ==
    /\ NonCopyIdle
    /\ copyArgs \in [resource : CopyResources, user : CopyUsers]
    /\ copyResult = <<>>

CallCanCopyResource ==
    /\ copyResult = <<>>
    /\ copyResult' = <<canCopyResource(copyArgs.resource, copyArgs.user)>>
    /\ UNCHANGED copyArgs
    /\ UNCHANGED nonCopyVars

CopyNext == CallCanCopyResource

SpecCopy == CopyInit /\ [][CopyNext]_vars

(***************************************************************************)
(* C10: canCopyResource(resource, user) returns the boolean true exactly   *)
(* when the user has the 'add_resource' permission, the resource has       *)
(* is_copyable set and, if the resource type is dataset or document, the   *)
(* resource also has the 'download_resourcebase' permission; in every      *)
(* other case, a missing resource or user included, the boolean false.     *)
(***************************************************************************)
C10_CanCopyResource ==
    copyResult # <<>> =>
        LET user == copyArgs.user
            resource == copyArgs.resource
            has(object, perm) ==
                /\ object # <<>>
                /\ object[1].perms # <<>>
                /\ perm \in object[1].perms[1]
            allowed ==
                /\ has(user, "add_resource")
                /\ resource # <<>>
                /\ resource[1].is_copyable = "true"
                /\ (resource[1].resource_type \in {"dataset", "document"}
                        => has(resource, "download_resourcebase"))
        IN  copyResult[1] = IF allowed THEN "true" ELSE "false"

C10_Witness ==
    /\ copyResult = <<"true">>
    /\ copyArgs.resource[1].resource_type = "dataset"

(***************************************************************************)
(* ResourceUtils: from a resource to the layers of the map viewer.         *)
(* A JavaScript object is a function from its keys, a missing key reads as *)
(* undefined, an array is a sequence.  A call returns                      *)
(* [throws, value]: value is what it returned unless it threw.             *)
(***************************************************************************)
MaxCalls == 2

Has(object, key) == key \in DOMAIN object

Prop(object, key) == IF key \in DOMAIN object THEN object[key] ELSE Nil

\* { ...a, ...b }
Spread(a, b) ==
    [k \in DOMAIN a \cup DOMAIN b |-> IF k \in DOMAIN b THEN b[k] ELSE a[k]]

\* { ...objects[1], ...objects[2], ... }
RECURSIVE SpreadAll(_)
SpreadAll(objects) ==
    IF objects = <<>> THEN <<>>
    ELSE Spread(SpreadAll(SubSeq(objects, 1, Len(objects) - 1)), objects[Len(objects)])

\* omit(object, keys)
Omit(object, keys) == [k \in DOMAIN object \ keys |-> object[k]]

\* ...(condition && object)
When(condition, object) == IF condition THEN object ELSE <<>>

Returns(value) == [throws |-> FALSE, value |-> value]

Throws == [throws |-> TRUE, value |-> <<>>]

\* a variant that returns the same value to every call
uuidOnce(n) == "uuid-" \o ToString(0)

\* the n-th value of uuid(): no two calls return the same value
uuid(n) == "uuid-" \o ToString(n)

WGS84_MAX_EXTENT == <<-180, -90, 180, 90>>

\* a variant that leaves out an extent that touches the maximum extent
getExtentFromResourceInside(resource) ==
    LET coords == IF Has(resource, "extent") /\ Has(resource.extent, "coords")
                  THEN resource.extent.coords ELSE <<>>
    IN  IF coords = <<>> THEN <<>>
        ELSE IF \/ coords[1] <= WGS84_MAX_EXTENT[1]
                \/ coords[2] <= WGS84_MAX_EXTENT[2]
                \/ coords[3] >= WGS84_MAX_EXTENT[3]
                \/ coords[4] >= WGS84_MAX_EXTENT[4]
        THEN <<>>
        ELSE <<[crs |-> "EPSG:4326",
                bounds |-> [minx |-> coords[1], miny |-> coords[2],
                            maxx |-> coords[3], maxy |-> coords[4]]]>>

\* null is <<>>, a bbox is <<bbox>>
getExtentFromResource(resource) ==
    LET coords == IF Has(resource, "extent") /\ Has(resource.extent, "coords")
                  THEN resource.extent.coords ELSE <<>>
    IN  IF coords = <<>> THEN <<>>
        ELSE IF \/ coords[1] < WGS84_MAX_EXTENT[1]
                \/ coords[2] < WGS84_MAX_EXTENT[2]
                \/ coords[3] > WGS84_MAX_EXTENT[3]
                \/ coords[4] > WGS84_MAX_EXTENT[4]
        THEN <<>>
        ELSE <<[crs |-> "EPSG:4326",
                bounds |-> [minx |-> coords[1], miny |-> coords[2],
                            maxx |-> coords[3], maxy |-> coords[4]]]>>

GXP_PTYPES ==
    [AUTO |-> "gxp_wmscsource", OWS |-> "gxp_wmscsource", WMS |-> "gxp_wmscsource",
     WFS |-> "gxp_wmscsource", WCS |-> "gxp_wmscsource",
     REST_MAP |-> "gxp_arcrestsource", REST_IMG |-> "gxp_arcrestsource",
     HGL |-> "gxp_hglsource", GN_WMS |-> "gxp_geonodecataloguesource"]

FEATURE_INFO_FORMAT == "TEMPLATE"

SOURCE_TYPES == [LOCAL |-> "LOCAL", REMOTE |-> "REMOTE"]

\* the urls of the links of the resources
LocalWmsUrl == "http://gs/geoserver/ows"

RemoteWmsUrl == "http://remote/wms?map=a"

ImageServerUrl == "http://arc/rest/services/a/ImageServer"

MapServerUrl == "http://arc/rest/services/a/MapServer"

\* url.parse(requestUrl, true).query
UrlQuery(requestUrl) == IF requestUrl = RemoteWmsUrl THEN [map |-> "a"] ELSE <<>>

\* requestUrl.split('/geoserver/')[0]
BeforeGeoserver(requestUrl) == IF requestUrl = LocalWmsUrl THEN "http://gs" ELSE requestUrl

\* requestUrl.includes('/geoserver/')
IncludesGeoserver(requestUrl) == requestUrl = LocalWmsUrl

\* isImageServerUrl of ArcGISUtils
isImageServerUrl(requestUrl) == requestUrl = ImageServerUrl

\* parseDevHostname of APIUtils: outside of a development host the url is left as it is
parseDevHostname(requestUrl) == requestUrl

\* alternate.replace('remoteWorkspace:', '')
WithoutRemoteWorkspace(alternate) ==
    IF alternate = "remoteWorkspace:layer" THEN "layer" ELSE alternate

\* attribute_type.includes('gml:')
IsGml(type) == type = "gml:PointPropertyType"

\* (links.find(link => link[key] === value) || {}).url
LinkUrl(links, key, value) ==
    LET found == {i \in DOMAIN links : Prop(links[i], key) = value}
    IN  IF found = {} THEN Nil
        ELSE Prop(links[CHOOSE i \in found : \A j \in found : i <= j], "url")


\* (links.find(({ mime, link_type }) => mime === 'text/html' && link_type === 'image') || {}).url
ArcgisLinkUrl(links) ==
    LET found == {i \in DOMAIN links :
                    /\ Prop(links[i], "mime") = "text/html"
                    /\ Prop(links[i], "link_type") = "image"}
    IN  IF found = {} THEN Nil
        ELSE Prop(links[CHOOSE i \in found : \A j \in found : i <= j], "url")

datasetAttributeSetToFields(resource) ==
    LET attributeSet == IF Has(resource, "attribute_set") THEN resource.attribute_set ELSE <<>>
        kept == SelectSeq(attributeSet, LAMBDA a : ~IsGml(a.attribute_type))
    IN  [i \in DOMAIN kept |->
            [name |-> kept[i].attribute, alias |-> kept[i].attribute_label,
             type |-> kept[i].attribute_type]]

getDimensions(resource) ==
    LET links == IF Has(resource, "links") THEN resource.links ELSE <<>>
        wmsUrl == LinkUrl(links, "link_type", "OGC:WMS")
        wmtsUrl == LinkUrl(links, "link_type", "OGC:WMTS")
    IN  IF Truthy(Prop(resource, "has_time"))
        THEN <<[name |-> "time",
                source |-> [type |-> "multidim-extension",
                            url |-> IF Truthy(wmtsUrl) THEN wmtsUrl
                                    ELSE BeforeGeoserver(IF Truthy(wmsUrl) THEN wmsUrl ELSE "")
                                            \o "/geoserver/gwc/service/wmts"]]>>
        ELSE <<>>

\* { defaultStyle: { title, name } } of a resource with a default_style, else nothing
DefaultStyleParams(resource) ==
    IF Has(resource, "default_style")
    THEN LET defaultStyle == resource.default_style
         IN  [defaultStyle |->
                [title |-> Prop(defaultStyle, "sld_title"),
                 name |-> IF Truthy(Prop(defaultStyle, "workspace"))
                          THEN defaultStyle.workspace \o ":" \o defaultStyle.name
                          ELSE Prop(defaultStyle, "name")]]
    ELSE <<>>

ExtendedParams(resource) ==
    Spread([pk |-> Prop(resource, "pk"), mapLayer |-> [dataset |-> resource]],
           DefaultStyleParams(resource))

\* id is the value uuid() returns to this call, settings is getConfigProp('geoNodeSettings') || {}
resourceToLayerConfig(resource, id, settings) ==
    LET alternate == Prop(resource, "alternate")
        links == IF Has(resource, "links") THEN resource.links ELSE <<>>
        template == Prop(resource, "featureinfo_custom_template")
        title == Prop(resource, "title")
        perms == Prop(resource, "perms")
        pk == Prop(resource, "pk")
        ptype == Prop(resource, "ptype")
        subtype == Prop(resource, "subtype")
        sourcetype == Prop(resource, "sourcetype")
        bbox == getExtentFromResource(resource)
        defaultStyleParams == DefaultStyleParams(resource)
        extendedParams == ExtendedParams(resource)
    IN  IF subtype = "3dtiles"
        THEN LET tilesetUrl == LinkUrl(links, "extension", "3dtiles")
             IN  Returns(SpreadAll(<<
                    [id |-> id, type |-> "3dtiles", title |-> title,
                     url |-> parseDevHostname(IF Truthy(tilesetUrl) THEN tilesetUrl ELSE "")],
                    When(bbox # <<>>, [bbox |-> bbox[1]]),
                    [visibility |-> TRUE, extendedParams |-> extendedParams]>>))
        ELSE IF ptype \in {GXP_PTYPES.REST_MAP, GXP_PTYPES.REST_IMG}
        THEN LET arcgisUrl == ArcgisLinkUrl(links)
             IN  IF ~isImageServerUrl(arcgisUrl) /\ alternate = Nil
                 THEN Throws
                 ELSE Returns(SpreadAll(<<
                    [perms |-> perms, id |-> id, pk |-> pk, type |-> "arcgis"],
                    IF isImageServerUrl(arcgisUrl)
                        THEN [queryable |-> FALSE]
                        ELSE [name |-> WithoutRemoteWorkspace(alternate)],
                    [url |-> arcgisUrl],
                    When(bbox # <<>>, [bbox |-> bbox[1]]),
                    [title |-> title, visibility |-> TRUE,
                     extendedParams |-> extendedParams]>>))
        ELSE LET wfsUrl == LinkUrl(links, "link_type", "OGC:WFS")
                 wmsUrl == LinkUrl(links, "link_type", "OGC:WMS")
                 dimensions == getDimensions(resource)
                 defaultLayerFormat == IF Has(settings, "defaultLayerFormat")
                                       THEN settings.defaultLayerFormat ELSE "image/png"
                 defaultTileSize == IF Has(settings, "defaultTileSize")
                                    THEN settings.defaultTileSize ELSE 512
                 fields == datasetAttributeSetToFields(resource)
             IN  IF sourcetype = SOURCE_TYPES.REMOTE /\ wmsUrl = Nil
                 THEN Throws
                 ELSE Returns(SpreadAll(<<
                    [perms |-> perms, id |-> id, pk |-> pk, type |-> "wms",
                     name |-> alternate,
                     url |-> IF Truthy(wmsUrl) THEN wmsUrl ELSE "",
                     format |-> defaultLayerFormat],
                    When(Truthy(wfsUrl), [search |-> [type |-> "wfs", url |-> wfsUrl]]),
                    IF bbox # <<>> THEN [bbox |-> bbox[1]] ELSE [bboxError |-> TRUE],
                    When(Truthy(template),
                         [featureInfo |-> [format |-> FEATURE_INFO_FORMAT,
                                           template |-> template]]),
                    [style |-> IF Has(defaultStyleParams, "defaultStyle")
                                  /\ Truthy(defaultStyleParams.defaultStyle.name)
                               THEN defaultStyleParams.defaultStyle.name ELSE "",
                     title |-> title,
                     tileSize |-> defaultTileSize,
                     visibility |-> TRUE],
                    When(Truthy(wmsUrl), [params |-> UrlQuery(wmsUrl)]),
                    When(dimensions # <<>>, [dimensions |-> dimensions]),
                    [extendedParams |-> extendedParams, fields |-> fields],
                    When(sourcetype = SOURCE_TYPES.REMOTE /\ ~IncludesGeoserver(wmsUrl),
                         [serverType |-> "no-vendor"]),
                    IF Has(resource, "data") THEN resource.data ELSE <<>>>>))

\* resource.maplayers.map(...).filter(value => value), from the n-th uuid on;
\* returns [throws, value, uuid]
RECURSIVE MapLayersToLayers(_, _, _)
MapLayersToLayers(maplayers, n, settings) ==
    IF maplayers = <<>> THEN [throws |-> FALSE, value |-> <<>>, uuid |-> n]
    ELSE LET maplayer == Head(maplayers)
         IN  IF ~Has(maplayer, "dataset")
             THEN MapLayersToLayers(Tail(maplayers), n, settings)
             ELSE LET unused == resourceToLayerConfig(maplayer.dataset, uuid(n + 1), settings)
                      layer == resourceToLayerConfig(maplayer.dataset, uuid(n + 2), settings)
                      rest == MapLayersToLayers(Tail(maplayers), n + 2, settings)
                  IN  IF unused.throws
                      THEN [throws |-> TRUE, value |-> <<>>, uuid |-> n + 1]
                      ELSE IF rest.throws THEN rest
                      ELSE [throws |-> FALSE,
                            value |-> <<Spread(layer.value,
                                        [style |-> Prop(maplayer, "current_style")])>>
                                      \o rest.value,
                            uuid |-> rest.uuid]

\* returns [throws, value, uuid], uuid being the number of ids handed out after the call
resourceToLayers(resource, n, settings) ==
    IF Prop(resource, "resource_type") = ResourceTypes.DATASET
    THEN LET layer == resourceToLayerConfig(resource, uuid(n + 1), settings)
         IN  IF layer.throws THEN [throws |-> TRUE, value |-> <<>>, uuid |-> n + 1]
             ELSE [throws |-> FALSE,
                   value |-> <<Spread(layer.value, [isDataset |-> TRUE])>>,
                   uuid |-> n + 1]
    ELSE IF Has(resource, "maplayers") /\ Prop(resource, "resource_type") = ResourceTypes.MAP
    THEN MapLayersToLayers(resource.maplayers, n, settings)
    ELSE [throws |-> FALSE, value |-> <<>>, uuid |-> n]

\* a variant that takes two layers of the same type and source as equal
compareBackgroundLayersByType(aLayer, bLayer) ==
    /\ Prop(aLayer, "type") = Prop(bLayer, "type")
    /\ Prop(aLayer, "source") = Prop(bLayer, "source")

\* whether two background layers are the same layer
compareBackgroundLayers(aLayer, bLayer) ==
    /\ Prop(aLayer, "type") = Prop(bLayer, "type")
    /\ Prop(aLayer, "name") = Prop(bLayer, "name")
    /\ Prop(aLayer, "source") = Prop(bLayer, "source")
    /\ Prop(aLayer, "provider") = Prop(bLayer, "provider")
    /\ Prop(aLayer, "url") = Prop(bLayer, "url")

\* config?.map?.layers || []
ConfigLayers(config) ==
    IF Has(config, "map") /\ Has(config.map, "layers") THEN config.map.layers ELSE <<>>

\* config?.map?.sources
ConfigSources(config) ==
    IF Has(config, "map") /\ Has(config.map, "sources") THEN config.map.sources ELSE <<>>

IsBackground(layer) == Prop(layer, "group") = "background"

\* mLayer?.extra_params?.msId
MsId(mLayer) ==
    IF Has(mLayer, "extra_params") THEN Prop(mLayer.extra_params, "msId") ELSE Nil

\* a variant that matches the layers by name
MatchesLayerByName(mLayer, layer) ==
    Prop(layer, "name") # Nil /\ Prop(mLayer, "name") = layer.name

\* layer.id !== undefined && mLayer?.extra_params?.msId === layer.id
MatchesLayer(mLayer, layer) ==
    Prop(layer, "id") # Nil /\ MsId(mLayer) = layer.id

\* the first element of a non-empty set of indices: what find returns
First(indices) == CHOOSE i \in indices : \A j \in indices : i <= j

\* a variant that leaves the style of the layer as it was saved
MatchedLayerKeepingStyle(layer, mapLayer) ==
    Spread(layer,
           [extendedParams |->
               Spread(IF Has(layer, "extendedParams") THEN layer.extendedParams ELSE <<>>,
                      [mapLayer |-> mapLayer])])

\* what a layer of the blob becomes when a map layer is found for it
MatchedLayer(layer, mapLayer) ==
    SpreadAll(<<
        layer,
        When(Prop(layer, "type") = "wms",
             [style |-> IF Truthy(Prop(mapLayer, "current_style"))
                        THEN mapLayer.current_style
                        ELSE IF Truthy(Prop(layer, "style"))
                        THEN layer.style ELSE ""]),
        [extendedParams |->
            Spread(IF Has(layer, "extendedParams") THEN layer.extendedParams ELSE <<>>,
                   [mapLayer |-> mapLayer])]>>)

\* the layers of the blob that are not background, reconciled with the maplayers
RECURSIVE ReconcileLayers(_, _)
ReconcileLayers(layers, maplayers) ==
    IF layers = <<>> THEN <<>>
    ELSE LET layer == Head(layers)
             rest == ReconcileLayers(Tail(layers), maplayers)
             found == {i \in DOMAIN maplayers : MatchesLayer(maplayers[i], layer)}
         IN  IF IsBackground(layer) THEN rest
             ELSE IF found # {}
             THEN <<MatchedLayer(layer, maplayers[First(found)])>> \o rest
             ELSE IF Has(layer, "extendedParams") /\ Has(layer.extendedParams, "mapLayer")
             THEN rest
             ELSE <<layer>> \o rest

\* the map layers not included in the blob, from the n-th uuid on;
\* returns [throws, value, uuid]
RECURSIVE AddMapLayers(_, _, _, _)
AddMapLayers(maplayers, layers, n, settings) ==
    IF maplayers = <<>> THEN [throws |-> FALSE, value |-> <<>>, uuid |-> n]
    ELSE LET mLayer == Head(maplayers)
         IN  IF \/ ~Has(mLayer, "dataset")
                \/ \E i \in DOMAIN layers : MatchesLayer(mLayer, layers[i])
             THEN AddMapLayers(Tail(maplayers), layers, n, settings)
             ELSE LET layer == resourceToLayerConfig(mLayer.dataset, uuid(n + 1), settings)
                      rest == AddMapLayers(Tail(maplayers), layers, n + 1, settings)
                  IN  IF layer.throws
                      THEN [throws |-> TRUE, value |-> <<>>, uuid |-> n + 1]
                      ELSE IF rest.throws THEN rest
                      ELSE [throws |-> FALSE, value |-> <<layer.value>> \o rest.value,
                            uuid |-> rest.uuid]

\* returns [throws, value, uuid], uuid being the number of ids handed out after the call
toMapStoreMapConfig(resource, baseConfig, n, settings) ==
    LET maplayers == IF Has(resource, "maplayers") THEN resource.maplayers ELSE <<>>
        data == IF Has(resource, "data") THEN resource.data ELSE <<>>
        baseMapBackgroundLayers == SelectSeq(ConfigLayers(baseConfig), IsBackground)
        current == SelectSeq(ConfigLayers(data),
                        LAMBDA layer :
                            /\ IsBackground(layer)
                            /\ Has(layer, "visibility") /\ layer.visibility
                            /\ \E i \in DOMAIN baseMapBackgroundLayers :
                                 compareBackgroundLayers(layer, baseMapBackgroundLayers[i]))
        backgroundLayers ==
            IF current = <<>> THEN baseMapBackgroundLayers
            ELSE [i \in DOMAIN baseMapBackgroundLayers |->
                    Spread(baseMapBackgroundLayers[i],
                           [visibility |->
                               compareBackgroundLayers(baseMapBackgroundLayers[i], current[1])])]
        layers == ReconcileLayers(ConfigLayers(data), maplayers)
        addMapLayers == AddMapLayers(maplayers, layers, n, settings)
    IN  IF addMapLayers.throws THEN addMapLayers
        ELSE [throws |-> FALSE,
              value |-> Spread(data,
                  [map |-> Spread(IF Has(data, "map") THEN data.map ELSE <<>>,
                      [layers |-> backgroundLayers \o layers \o addMapLayers.value,
                       sources |-> Spread(ConfigSources(data), ConfigSources(baseConfig))])]),
              uuid |-> addMapLayers.uuid]


\* a variant that records the name of the layer as msId
getGeoNodeMapLayersByName(data) ==
    LET kept == SelectSeq(ConfigLayers(data),
                    LAMBDA layer : Has(layer, "extendedParams")
                                   /\ Has(layer.extendedParams, "mapLayer"))
    IN  [i \in DOMAIN kept |->
            [pk |-> Prop(kept[i].extendedParams.mapLayer, "pk"),
             current_style |-> IF Truthy(Prop(kept[i], "style")) THEN kept[i].style ELSE "",
             extra_params |-> [msId |-> Prop(kept[i], "name")],
             name |-> IF Truthy(Prop(kept[i], "name")) THEN kept[i].name ELSE "",
             order |-> i - 1,
             opacity |-> IF Has(kept[i], "opacity") THEN kept[i].opacity ELSE 1,
             visibility |-> Prop(kept[i], "visibility")]]

getGeoNodeMapLayers(data) ==
    LET kept == SelectSeq(ConfigLayers(data),
                    LAMBDA layer : Has(layer, "extendedParams")
                                   /\ Has(layer.extendedParams, "mapLayer"))
    IN  [i \in DOMAIN kept |->
            LET layer == kept[i]
                style == IF Truthy(Prop(layer, "style")) THEN layer.style ELSE ""
            IN  SpreadAll(<<
                    [pk |-> Prop(layer.extendedParams.mapLayer, "pk")],
                    [current_style |-> style,
                     extra_params |-> [msId |-> Prop(layer, "id")]],
                    When(Prop(layer, "type") = "wms", [current_style |-> style]),
                    [name |-> IF Truthy(Prop(layer, "name")) THEN layer.name ELSE "",
                     order |-> i - 1,
                     opacity |-> IF Has(layer, "opacity") THEN layer.opacity ELSE 1,
                     visibility |-> Prop(layer, "visibility")]>>)]

\* data is <<>> when missing, else <<data>>
toGeoNodeMapConfig(data) ==
    IF data = <<>> THEN <<>>
    ELSE [maplayers |-> getGeoNodeMapLayers(data[1])]

(***************************************************************************)
(* The resources, configurations and settings the translations are called  *)
(* with.                                                                   *)
(***************************************************************************)
LocalLinks ==
    <<[link_type |-> "OGC:WMS", url |-> LocalWmsUrl],
      [link_type |-> "OGC:WFS", url |-> "http://gs/geoserver/wfs"],
      [extension |-> "3dtiles", url |-> "http://gs/tileset.json"],
      [link_type |-> "image", mime |-> "text/html", url |-> MapServerUrl]>>

RemoteLinks ==
    <<[link_type |-> "image", mime |-> "text/html", url |-> ImageServerUrl],
      [link_type |-> "OGC:WMS", url |-> RemoteWmsUrl]>>

CoordsInputs ==
    {<<>>, <<-10, -20, 30, 40>>, <<-180, -90, 180, 90>>, <<-181, -20, 30, 40>>,
     <<-10, -91, 30, 40>>, <<-10, -20, 181, 40>>, <<-10, -20, 30, 91>>}

\* the optional properties of a dataset
DatasetExtras ==
    {<<>>,
     [default_style |-> [name |-> "style", workspace |-> "geonode", sld_title |-> "Style"],
      featureinfo_custom_template |-> "<p>${properties.name}</p>",
      has_time |-> "true",
      attribute_set |->
        <<[attribute |-> "name", attribute_label |-> "Name", attribute_type |-> "xsd:string"],
          [attribute |-> "geom", attribute_label |-> "Geom",
           attribute_type |-> "gml:PointPropertyType"]>>],
     [sourcetype |-> SOURCE_TYPES.REMOTE],
     [data |-> [id |-> "saved-id", opacity |-> "0.5"]],
     [data |-> [bbox |-> [crs |-> "EPSG:3857",
                          bounds |-> [minx |-> 0, miny |-> 0, maxx |-> 100, maxy |-> 100]]]]}

Datasets ==
    {Spread([resource_type |-> ResourceTypes.DATASET, pk |-> "1", title |-> "Layer",
             alternate |-> "geonode:layer", perms |-> {"view_resourcebase"},
             subtype |-> subtype, ptype |-> ptype, extent |-> [coords |-> coords],
             links |-> links], extra) :
        subtype \in {"vector", "3dtiles"},
        ptype \in {GXP_PTYPES.WMS, GXP_PTYPES.REST_MAP},
        coords \in CoordsInputs,
        links \in {<<>>, LocalLinks, RemoteLinks},
        extra \in DatasetExtras}

\* the dataset of the map layers
MapDataset ==
    [resource_type |-> ResourceTypes.DATASET, pk |-> "2", title |-> "Roads",
     alternate |-> "geonode:roads", subtype |-> "vector", ptype |-> GXP_PTYPES.WMS,
     extent |-> [coords |-> <<-10, -20, 30, 40>>], links |-> LocalLinks]

MapLayer(msId, extra) ==
    Spread([pk |-> "10", name |-> "geonode:roads", current_style |-> "geonode:lines",
            extra_params |-> [msId |-> msId]], extra)

MapLayersInputs ==
    {<<>>,
     <<MapLayer("l1", <<>>)>>,
     <<MapLayer("l4", [dataset |-> MapDataset]), MapLayer("l1", [dataset |-> MapDataset])>>,
     <<MapLayer("l5", <<>>), MapLayer("l4", [dataset |-> MapDataset])>>,
     <<MapLayer("l2", [pk |-> "12"]), MapLayer("l1", [current_style |-> ""]),
       MapLayer("l1", [pk |-> "13"])>>,
     <<MapLayer("l4", [dataset |-> Spread(MapDataset, [sourcetype |-> SOURCE_TYPES.REMOTE,
                                                       links |-> <<>>])])>>}

Background(type, name, visibility) ==
    [group |-> "background", type |-> type, name |-> name, source |-> type,
     visibility |-> visibility]

BlobLayer(id, type, extra) ==
    Spread([id |-> id, type |-> type, name |-> "geonode:roads", style |-> "geonode:roads",
            visibility |-> TRUE], extra)

BlobLayersInputs ==
    {<<>>,
     <<Background("osm", "mapnik", FALSE), Background("empty", "empty", TRUE),
       BlobLayer("l1", "wms", [extendedParams |-> [mapLayer |-> [pk |-> "10"]]]),
       BlobLayer("l2", "vector", <<>>)>>,
     <<BlobLayer("l3", "wms", [extendedParams |-> [mapLayer |-> [pk |-> "11"]]]),
       Spread(Background("empty", "none", TRUE), [id |-> "l4"]),
       BlobLayer("l1", "wms", [extendedParams |-> [mapLayer |-> [pk |-> "10"]]])>>,
     <<Background("osm", "mapnik", TRUE),
       BlobLayer("l1", "wms", [extendedParams |-> [mapLayer |-> [pk |-> "10"]]]),
       Omit(BlobLayer("l2", "wms", [extendedParams |-> [mapLayer |-> [pk |-> "11"]]]),
            {"style"}),
       BlobLayer("l3", "vector", [extendedParams |-> [mapLayer |-> [pk |-> "12"]]])>>,
     <<Spread(Background("osm", "mapnik", TRUE),
              [id |-> "l1", style |-> "osm-style",
               extendedParams |-> [mapLayer |-> [pk |-> "9"]]]),
       BlobLayer("l1", "wms", [extendedParams |-> [mapLayer |-> [pk |-> "10"]]])>>}

Maps ==
    {Spread([resource_type |-> ResourceTypes.MAP, pk |-> "3", maplayers |-> maplayers], data) :
        maplayers \in MapLayersInputs,
        data \in {<<>>} \cup
                 {[data |-> [version |-> "2",
                             map |-> [zoom |-> "5", layers |-> layers,
                                      sources |-> [osm |-> "saved"]]]] :
                    layers \in BlobLayersInputs}}

BaseConfigs ==
    {<<>>,
     [map |-> [layers |-> <<Background("osm", "mapnik", TRUE),
                            Background("empty", "empty", FALSE)>>,
               sources |-> [osm |-> "base"]]]}

GeoNodeSettingsInputs ==
    {<<>>, [defaultLayerFormat |-> "image/jpeg", defaultTileSize |-> 256]}

LayerInit ==
    /\ NonLayerIdle
    /\ layerInput \in [resource : Datasets \cup Maps, baseConfig : BaseConfigs]
    /\ geoNodeSettings \in GeoNodeSettingsInputs
    /\ uuidCount = 0
    /\ layerOut = <<>>

CallResourceToLayerConfig ==
    /\ Len(layerOut) < MaxCalls
    /\ layerInput.resource.resource_type = ResourceTypes.DATASET
    /\ LET result == resourceToLayerConfig(layerInput.resource, uuid(uuidCount + 1),
                                           geoNodeSettings)
       IN  layerOut' = Append(layerOut, [fn |-> "resourceToLayerConfig",
                                         throws |-> result.throws, value |-> result.value])
    /\ uuidCount' = uuidCount + 1
    /\ UNCHANGED <<layerInput, geoNodeSettings>>
    /\ UNCHANGED nonLayerVars

CallResourceToLayers ==
    /\ Len(layerOut) < MaxCalls
    /\ LET result == resourceToLayers(layerInput.resource, uuidCount, geoNodeSettings)
       IN  /\ layerOut' = Append(layerOut, [fn |-> "resourceToLayers",
                                            throws |-> result.throws, value |-> result.value])
           /\ uuidCount' = result.uuid
    /\ UNCHANGED <<layerInput, geoNodeSettings>>
    /\ UNCHANGED nonLayerVars

CallToMapStoreMapConfig ==
    /\ Len(layerOut) < MaxCalls
    /\ layerInput.resource.resource_type = ResourceTypes.MAP
    /\ LET result == toMapStoreMapConfig(layerInput.resource, layerInput.baseConfig,
                                         uuidCount, geoNodeSettings)
       IN  /\ layerOut' = Append(layerOut, [fn |-> "toMapStoreMapConfig",
                                            throws |-> result.throws, value |-> result.value])
           /\ uuidCount' = result.uuid
    /\ UNCHANGED <<layerInput, geoNodeSettings>>
    /\ UNCHANGED nonLayerVars

\* the map is saved and loaded again:
\* toMapStoreMapConfig({ maplayers: toGeoNodeMapConfig(data).maplayers, data }, baseConfig)
SaveAndLoadMapConfig ==
    /\ Len(layerOut) < MaxCalls
    /\ Has(layerInput.resource, "data")
    /\ LET data == layerInput.resource.data
           result == toMapStoreMapConfig(
                        [maplayers |-> toGeoNodeMapConfig(<<data>>).maplayers, data |-> data],
                        layerInput.baseConfig, uuidCount, geoNodeSettings)
       IN  /\ layerOut' = Append(layerOut, [fn |-> "saveAndLoad",
                                            throws |-> result.throws, value |-> result.value])
           /\ uuidCount' = result.uuid
    /\ UNCHANGED <<layerInput, geoNodeSettings>>
    /\ UNCHANGED nonLayerVars

LayerNext ==
    \/ CallResourceToLayerConfig
    \/ CallResourceToLayers
    \/ CallToMapStoreMapConfig
    \/ SaveAndLoadMapConfig

SpecLayer == LayerInit /\ [][LayerNext]_vars


\* the layers a call returned
LayersOf(out) ==
    IF out.throws THEN <<>>
    ELSE IF out.fn = "resourceToLayerConfig" THEN <<out.value>>
    ELSE IF out.fn = "resourceToLayers" THEN out.value
    ELSE out.value.map.layers

\* what a call returned besides its layers
BesidesLayers(out) ==
    IF out.throws \/ out.fn # "toMapStoreMapConfig" THEN <<>>
    ELSE Spread(out.value,
                [map |-> [k \in DOMAIN out.value.map \ {"layers"} |-> out.value.map[k]]])

WithoutId(layer) == [k \in DOMAIN layer \ {"id"} |-> layer[k]]

\* id is one of the values uuid() has returned
IsGenerated(id) == \E n \in 1..uuidCount : id = uuid(n)

OmitType(entry) == [k \in DOMAIN entry \ {"type"} |-> entry[k]]

\* list.filter(({ permissions }) => permissions).map(omit type)
WithPermissions(list) ==
    LET kept == SelectSeq(list, LAMBDA entry : Truthy(Prop(entry, "permissions")))
    IN  [i \in DOMAIN kept |-> OmitType(kept[i])]

\* list.filter(({ permissions, type }) => permissions && type === ...).map(omit type)
WithPermissionsOfType(list, type) ==
    LET kept == SelectSeq(list,
                    LAMBDA entry : Truthy(Prop(entry, "permissions"))
                                   /\ Prop(entry, "type") = type)
    IN  [i \in DOMAIN kept |-> OmitType(kept[i])]

permissionsListsToCompact(lists) ==
    [groups |-> WithPermissions(lists.groups),
     organizations |-> WithPermissionsOfType(lists.entries, "group"),
     users |-> WithPermissionsOfType(lists.entries, "user")]

\* { ...entry, type, ...(!entry.parsed && { name: entry[nameKey], avatar: entry[avatarKey] }) }
ListEntry(entry, type, nameKey, avatarKey) ==
    SpreadAll(<<entry, [type |-> type],
                When(~Truthy(Prop(entry, "parsed")),
                     [name |-> Prop(entry, nameKey), avatar |-> Prop(entry, avatarKey)])>>)

permissionsCompactToLists(compact) ==
    LET groups == IF Has(compact, "groups") THEN compact.groups ELSE <<>>
        users == IF Has(compact, "users") THEN compact.users ELSE <<>>
        organizations == IF Has(compact, "organizations") THEN compact.organizations ELSE <<>>
    IN  [groups |-> [i \in DOMAIN groups |-> ListEntry(groups[i], "group", "name", "logo")],
         entries |->
            [i \in DOMAIN users |-> ListEntry(users[i], "user", "username", "avatar")]
            \o [i \in DOMAIN organizations |->
                    ListEntry(organizations[i], "group", "title", "logo")]]

\* list.map(({ id, permissions }) => ({ id, permissions }))
IdAndPermissions(list) ==
    [i \in DOMAIN list |->
        [id |-> list[i].id, permissions |-> Prop(list[i], "permissions")]]

\* array.sort((a, b) => a.id > b.id ? -1 : 1) of a list with different ids
RECURSIVE SortByIdDescending(_)
SortByIdDescending(list) ==
    IF list = <<>> THEN <<>>
    ELSE LET i == CHOOSE i \in DOMAIN list :
                    \A j \in DOMAIN list : list[i].id >= list[j].id
         IN  <<list[i]>>
             \o SortByIdDescending(SubSeq(list, 1, i - 1)
                                   \o SubSeq(list, i + 1, Len(list)))


\* the test of the find and of the filter of processUploadResponse
SameUpload(upload, currentResponse) ==
    IF Truthy(Prop(upload, "id")) /\ Truthy(Prop(currentResponse, "id"))
    THEN upload.id = currentResponse.id
    ELSE IF Truthy(Prop(upload, "id")) /\ Truthy(Prop(currentResponse, "exec_id"))
    THEN upload.id = currentResponse.exec_id
    ELSE IF Truthy(Prop(upload, "exec_id")) /\ Truthy(Prop(currentResponse, "id"))
    THEN upload.exec_id = currentResponse.id
    ELSE Prop(upload, "exec_id") = Prop(currentResponse, "exec_id")

\* uniqBy(list, 'id'): the first upload of every id
UniqById(list) ==
    LET first == {i \in DOMAIN list :
                    \A j \in DOMAIN list : j < i => Prop(list[j], "id") # Prop(list[i], "id")}
        RECURSIVE Pick(_)
        Pick(i) == IF i > Len(list) THEN <<>>
                   ELSE (IF i \in first THEN <<list[i]>> ELSE <<>>) \o Pick(i + 1)
    IN  Pick(1)

\* orderBy(list, 'create_date', 'desc'): a stable sort
RECURSIVE OrderByCreateDateDescending(_)
OrderByCreateDateDescending(list) ==
    IF list = <<>> THEN <<>>
    ELSE LET latest == {i \in DOMAIN list :
                            \A j \in DOMAIN list : list[i].create_date >= list[j].create_date}
             i == First(latest)
         IN  <<list[i]>>
             \o OrderByCreateDateDescending(SubSeq(list, 1, i - 1)
                                            \o SubSeq(list, i + 1, Len(list)))

parseUploadResponse(upload) == OrderByCreateDateDescending(UniqById(upload))

\* response.reduce(..., []) up to the i-th response
RECURSIVE ReduceUploads(_, _)
ReduceUploads(response, i) ==
    IF i = 0 THEN <<>>
    ELSE LET acc == ReduceUploads(response, i - 1)
             currentResponse == response[i]
             duplicate == \E k \in DOMAIN acc : SameUpload(acc[k], currentResponse)
             newAcc == SelectSeq(acc, LAMBDA upload : ~SameUpload(upload, currentResponse))
             added == Spread(currentResponse,
                        When(~Truthy(Prop(currentResponse, "id")),
                             [create_date |-> Prop(currentResponse, "created"),
                              id |-> Prop(currentResponse, "exec_id")]))
         IN  IF duplicate THEN <<added>> \o newAcc ELSE <<added>> \o acc

processUploadResponse(response) ==
    parseUploadResponse(ReduceUploads(response, Len(response)))

\* excludeGoogleBackground of LayersUtils: the google layers are left out and, when
\* the visible background was one of them, another background is made visible
excludeGoogleBackground(list) ==
    LET hasVisibleGoogleBackground ==
            \E i \in DOMAIN list :
                /\ IsBackground(list[i])
                /\ Prop(list[i], "type") = "google"
                /\ Has(list[i], "visibility") /\ list[i].visibility
        kept == SelectSeq(list, LAMBDA layer : Prop(layer, "type") # "google")
        backgrounds == {i \in DOMAIN kept : IsBackground(kept[i])}
        mapnik == {i \in backgrounds : Prop(kept[i], "name") = "mapnik"}
        shown == IF mapnik # {} THEN First(mapnik) ELSE First(backgrounds)
    IN  IF hasVisibleGoogleBackground /\ backgrounds # {}
        THEN [i \in DOMAIN kept |->
                IF Prop(kept[i], "id") = Prop(kept[shown], "id")
                THEN Spread(kept[i], [visibility |-> TRUE]) ELSE kept[i]]
        ELSE kept

\* extractTileMatrixFromSources of LayersUtils: the tile matrix sets of a wmts layer
extractTileMatrixFromSources(sources, layer) ==
    IF Prop(layer, "type") = "wmts" /\ Has(sources, Prop(layer, "capabilitiesURL"))
    THEN [availableTileMatrixSets |-> sources[layer.capabilitiesURL]]
    ELSE <<>>

\* layer.type = 'empty' on the background layers of OpenLayers, written in the heap
RECURSIVE EmptyOpenLayers(_, _)
EmptyOpenLayers(cells, addresses) ==
    IF addresses = <<>> THEN cells
    ELSE LET a == Head(addresses)
             written == IF IsBackground(cells[a])
                           /\ Prop(cells[a], "type") \in {"ol", "OpenLayers.Layer"}
                        THEN [cells EXCEPT ![a] = Spread(cells[a], [type |-> "empty"])]
                        ELSE cells
         IN  EmptyOpenLayers(written, Tail(addresses))

\* convertFromLegacy(config) and normalizeConfig(config.map) of ConfigUtils: the
\* state of the map, its layers being the layer objects of the configuration
\* (shares) or copies of them; returns [heap, mapState], the layers by address
MapState(cells, config, shares) ==
    LET addresses == ConfigLayers(config)
        copies == [i \in DOMAIN addresses |-> cells[addresses[i]]]
    IN  [heap |-> IF shares THEN cells ELSE cells \o copies,
         mapState |->
            [map |-> [k \in DOMAIN config.map \ {"layers", "groups"} |-> config.map[k]],
             layers |-> IF shares THEN addresses
                        ELSE [i \in DOMAIN addresses |-> Len(cells) + i],
             groups |-> IF Has(config.map, "groups") THEN config.map.groups ELSE <<>>]]

\* returns [heap, value]; mapResponse.data.map.layers holds the addresses of the layers
parseMapConfig(cells, mapResponse, resource, shares) ==
    LET config == mapResponse.data
        id == Prop(mapResponse, "pk")
        converted == MapState(cells, config, shares)
        mapState == converted.mapState
        written == EmptyOpenLayers(converted.heap, mapState.layers)
        layers == excludeGoogleBackground(
                    [i \in DOMAIN mapState.layers |-> written[mapState.layers[i]]])
        fromResource == IF Has(resource, "data") THEN resource.data ELSE <<>>
        map == Spread(mapState.map,
                [id |-> id,
                 sourceId |-> IF Truthy(Prop(fromResource, "sourceId"))
                              THEN fromResource.sourceId ELSE "geonode",
                 groups |-> mapState.groups,
                 layers |-> IF Has(mapState.map, "sources")
                            THEN [i \in DOMAIN layers |->
                                    Spread(layers[i],
                                        extractTileMatrixFromSources(mapState.map.sources,
                                                                     layers[i]))]
                            ELSE layers])
    IN  [heap |-> written,
         value |-> Spread(map,
            [id |-> id,
             owner |-> IF Has(mapResponse, "owner")
                       THEN Prop(mapResponse.owner, "username") ELSE Nil,
             canCopy |-> TRUE, canDelete |-> TRUE, canEdit |-> TRUE,
             name |-> IF Truthy(Prop(fromResource, "title"))
                      THEN fromResource.title ELSE Prop(mapResponse, "title"),
             description |-> IF Truthy(Prop(fromResource, "description"))
                             THEN fromResource.description ELSE Prop(mapResponse, "abstract"),
             thumbnail |-> IF Truthy(Prop(fromResource, "thumbnail"))
                           THEN fromResource.thumbnail ELSE Prop(mapResponse, "thumbnail_url"),
             type |-> "map"])]

\* returns [heap, value]: the arrays made by map are new cells, and sort orders them in place
cleanCompactPermissions(cells, compact) ==
    LET made == cells \o <<IdAndPermissions(cells[compact.groups]),
                           IdAndPermissions(cells[compact.organizations]),
                           IdAndPermissions(cells[compact.users])>>
        n == Len(cells)
        sorted == [made EXCEPT ![n + 1] = SortByIdDescending(made[n + 1]),
                               ![n + 2] = SortByIdDescending(made[n + 2]),
                               ![n + 3] = SortByIdDescending(made[n + 3])]
    IN  [heap |-> sorted,
         value |-> [groups |-> sorted[n + 1], organizations |-> sorted[n + 2],
                    users |-> sorted[n + 3]]]


(***************************************************************************)
(* The translations called on arguments kept in the heap: a cell is a      *)
(* layer object or an array, its address is its index.  After a call the   *)
(* caller still holds the cells it passed.                                 *)
(***************************************************************************)
\* the addresses first..first + n - 1, as an array
Addresses(first, n) == [i \in 1..n |-> first + i - 1]

\* config with the layers read from the heap
WithLayers(config, cells) ==
    IF Has(config, "map") /\ Has(config.map, "layers")
    THEN Spread(config,
            [map |-> Spread(config.map,
                [layers |-> [i \in DOMAIN config.map.layers |->
                                cells[config.map.layers[i]]]])])
    ELSE config

ParsedLayersInputs ==
    {<<>>,
     <<Background("ol", "none", TRUE), BlobLayer("l1", "wms", <<>>),
       Background("google", "ROADMAP", FALSE)>>,
     <<Background("osm", "mapnik", FALSE), Background("google", "HYBRID", TRUE),
       BlobLayer("l1", "wms", <<>>)>>,
     <<Background("OpenLayers.Layer", "none", FALSE), Background("osm", "mapnik", TRUE)>>}

ParseMapConfigCalls ==
    {[fn |-> "parseMapConfig",
      cells |-> layers,
      args |-> [mapResponse |->
                    [pk |-> "3", title |-> "Map", abstract |-> "A map",
                     thumbnail_url |-> "http://gs/thumb.png",
                     owner |-> [username |-> "admin"],
                     data |-> Spread(version,
                                [map |-> Spread([zoom |-> "5",
                                                 layers |-> Addresses(1, Len(layers))],
                                                sources)])],
                resource |-> resource]] :
        layers \in ParsedLayersInputs,
        version \in {<<>>, [version |-> "2"]},
        sources \in {<<>>, [sources |-> [osm |-> "saved"]]},
        resource \in {<<>>, [data |-> [title |-> "New title"]]}}

PermissionEntry(id, type, permissions) ==
    [id |-> id, type |-> type, permissions |-> permissions, name |-> "name",
     username |-> "username", title |-> "title", avatar |-> "avatar", logo |-> "logo",
     isGeoLimitsChanged |-> "true"]

PermissionListsInputs ==
    {<<>>,
     <<PermissionEntry(1, "group", "view"), PermissionEntry(3, "user", "manage"),
       PermissionEntry(2, "group", "")>>,
     <<PermissionEntry(2, "user", "view"), PermissionEntry(1, "user", "")>>}

CleanCompactPermissionsCalls ==
    {[fn |-> "cleanCompactPermissions",
      cells |-> <<groups, organizations, users>>,
      args |-> [groups |-> 1, organizations |-> 2, users |-> 3]] :
        groups \in PermissionListsInputs,
        organizations \in PermissionListsInputs,
        users \in PermissionListsInputs}

PermissionsListsToCompactCalls ==
    {[fn |-> "permissionsListsToCompact",
      cells |-> <<groups, list>>,
      args |-> [groups |-> 1, entries |-> 2]] :
        groups \in PermissionListsInputs, list \in PermissionListsInputs}

PermissionsCompactToListsCalls ==
    {[fn |-> "permissionsCompactToLists",
      cells |-> <<groups, users>>,
      args |-> [groups |-> 1, users |-> 2]] :
        groups \in PermissionListsInputs, users \in PermissionListsInputs}

ToGeoNodeMapConfigCalls ==
    {[fn |-> "toGeoNodeMapConfig", cells |-> <<>>, args |-> <<>>]} \cup
    {[fn |-> "toGeoNodeMapConfig",
      cells |-> layers,
      args |-> <<[version |-> "2", map |-> [layers |-> Addresses(1, Len(layers))]]>>] :
        layers \in BlobLayersInputs}

\* resource.data || {}
DataOf(resource) == IF Has(resource, "data") THEN resource.data ELSE <<>>

\* the layers of the blob and of the base configuration are cells
ToMapStoreMapConfigCalls ==
    {[fn |-> "toMapStoreMapConfig",
      cells |-> ConfigLayers(DataOf(resource)) \o ConfigLayers(baseConfig),
      args |-> [resource |->
                    IF Has(resource, "data")
                    THEN Spread(resource, [data |-> Spread(resource.data,
                            [map |-> Spread(resource.data.map,
                                [layers |-> Addresses(1, Len(resource.data.map.layers))])])])
                    ELSE resource,
                baseConfig |->
                    IF Has(baseConfig, "map")
                    THEN Spread(baseConfig, [map |-> Spread(baseConfig.map,
                            [layers |-> Addresses(
                                Len(ConfigLayers(DataOf(resource))) + 1,
                                Len(baseConfig.map.layers))])])
                    ELSE baseConfig]] :
        resource \in Maps, baseConfig \in BaseConfigs}

\* the maplayers of a map are cells
ResourceToLayersCalls ==
    {[fn |-> "resourceToLayers",
      cells |-> IF Has(resource, "maplayers") THEN resource.maplayers ELSE <<>>,
      args |-> IF Has(resource, "maplayers")
               THEN Spread(resource, [maplayers |-> Addresses(1, Len(resource.maplayers))])
               ELSE resource] :
        resource \in Maps \cup {MapDataset}}

Upload(id, execId, created) ==
    SpreadAll(<<When(id # Nil, [id |-> id, create_date |-> created]),
                When(execId # Nil, [exec_id |-> execId, created |-> created]),
                [name |-> "upload"]>>)

ProcessUploadResponseCalls ==
    {[fn |-> "processUploadResponse", cells |-> <<response>>, args |-> 1] :
        response \in {<<>>,
                      <<Upload("a", Nil, 1), Upload(Nil, "b", 3), Upload("b", Nil, 2)>>,
                      <<Upload(Nil, "a", 2), Upload("a", "a", 1), Upload(Nil, "c", 3)>>}}


PureInit ==
    /\ NonPureIdle
    /\ pureCall \in ParseMapConfigCalls \cup CleanCompactPermissionsCalls
                    \cup PermissionsListsToCompactCalls \cup PermissionsCompactToListsCalls
                    \cup ToGeoNodeMapConfigCalls \cup ToMapStoreMapConfigCalls
                    \cup ResourceToLayersCalls \cup ProcessUploadResponseCalls
    /\ heap = pureCall.cells
    /\ pureResult = <<>>

\* what no call on the heap changes
PureFrame ==
    /\ UNCHANGED pureCall
    /\ UNCHANGED <<epicVars, catalogVars, stopVars, copyVars, downloadVars, thumbVars>>

\* the library gives back the layer objects of the response, or copies of them
CallParseMapConfig ==
    /\ pureResult = <<>>
    /\ pureCall.fn = "parseMapConfig"
    /\ \E shares \in BOOLEAN :
        LET result == parseMapConfig(heap, pureCall.args.mapResponse,
                                     pureCall.args.resource, shares)
        IN  /\ heap' = result.heap
            /\ pureResult' = <<result.value>>
    /\ UNCHANGED layerVars
    /\ PureFrame

CallCleanCompactPermissions ==
    /\ pureResult = <<>>
    /\ pureCall.fn = "cleanCompactPermissions"
    /\ LET result == cleanCompactPermissions(heap, pureCall.args)
       IN  /\ heap' = result.heap
           /\ pureResult' = <<result.value>>
    /\ UNCHANGED layerVars
    /\ PureFrame

CallPermissionsListsToCompact ==
    /\ pureResult = <<>>
    /\ pureCall.fn = "permissionsListsToCompact"
    /\ pureResult' = <<permissionsListsToCompact(
                        [groups |-> heap[pureCall.args.groups],
                         entries |-> heap[pureCall.args.entries]])>>
    /\ UNCHANGED heap
    /\ UNCHANGED layerVars
    /\ PureFrame

CallPermissionsCompactToLists ==
    /\ pureResult = <<>>
    /\ pureCall.fn = "permissionsCompactToLists"
    /\ pureResult' = <<permissionsCompactToLists(
                        [groups |-> heap[pureCall.args.groups],
                         users |-> heap[pureCall.args.users]])>>
    /\ UNCHANGED heap
    /\ UNCHANGED layerVars
    /\ PureFrame

CallToGeoNodeMapConfig ==
    /\ pureResult = <<>>
    /\ pureCall.fn = "toGeoNodeMapConfig"
    /\ pureResult' = <<toGeoNodeMapConfig(
                        [i \in DOMAIN pureCall.args |-> WithLayers(pureCall.args[i], heap)])>>
    /\ UNCHANGED heap
    /\ UNCHANGED layerVars
    /\ PureFrame

CallToMapStoreMapConfigOnHeap ==
    /\ pureResult = <<>>
    /\ pureCall.fn = "toMapStoreMapConfig"
    /\ LET resource == pureCall.args.resource
           result == toMapStoreMapConfig(
                        IF Has(resource, "data")
                        THEN Spread(resource, [data |-> WithLayers(resource.data, heap)])
                        ELSE resource,
                        WithLayers(pureCall.args.baseConfig, heap),
                        uuidCount, geoNodeSettings)
       IN  /\ pureResult' = <<[throws |-> result.throws, value |-> result.value]>>
           /\ uuidCount' = result.uuid
    /\ UNCHANGED heap
    /\ UNCHANGED <<layerInput, geoNodeSettings, layerOut>>
    /\ PureFrame

CallResourceToLayersOnHeap ==
    /\ pureResult = <<>>
    /\ pureCall.fn = "resourceToLayers"
    /\ LET resource == pureCall.args
           result == resourceToLayers(
                        IF Has(resource, "maplayers")
                        THEN Spread(resource,
                                [maplayers |-> [i \in DOMAIN resource.maplayers |->
                                                    heap[resource.maplayers[i]]]])
                        ELSE resource,
                        uuidCount, geoNodeSettings)
       IN  /\ pureResult' = <<[throws |-> result.throws, value |-> result.value]>>
           /\ uuidCount' = result.uuid
    /\ UNCHANGED heap
    /\ UNCHANGED <<layerInput, geoNodeSettings, layerOut>>
    /\ PureFrame

CallProcessUploadResponse ==
    /\ pureResult = <<>>
    /\ pureCall.fn = "processUploadResponse"
    /\ pureResult' = <<processUploadResponse(heap[pureCall.args])>>
    /\ UNCHANGED heap
    /\ UNCHANGED layerVars
    /\ PureFrame

PureNext ==
    \/ CallParseMapConfig
    \/ CallCleanCompactPermissions
    \/ CallPermissionsListsToCompact
    \/ CallPermissionsCompactToLists
    \/ CallToGeoNodeMapConfig
    \/ CallToMapStoreMapConfigOnHeap
    \/ CallResourceToLayersOnHeap
    \/ CallProcessUploadResponse

SpecPure == PureInit /\ [][PureNext]_vars

(***************************************************************************)
(* C7: toGeoNodeMapConfig, toMapStoreMapConfig, parseMapConfig,            *)
(* resourceToLayers, permissionsListsToCompact, permissionsCompactToLists, *)
(* cleanCompactPermissions and processUploadResponse never modify the      *)
(* objects or arrays passed to them: after the call every cell the caller  *)
(* passed holds what it held before the call.                              *)
(***************************************************************************)
C7_ArgumentsUnchanged ==
    pureResult # <<>> =>
        \A a \in DOMAIN pureCall.cells : heap[a] = pureCall.cells[a]

(***************************************************************************)
(* toMapStoreMapConfig: the map layers added to the layers of the blob.    *)
(***************************************************************************)
\* the calls of toMapStoreMapConfig that returned
MapConfigCalls ==
    {i \in DOMAIN layerOut : layerOut[i].fn = "toMapStoreMapConfig" /\ ~layerOut[i].throws}

\* the layers of the saved blob of the resource the calls are made with
BlobLayers == ConfigLayers(DataOf(layerInput.resource))

\* the layers of a result whose id was generated: the ones resourceToLayerConfig made
AddedLayers(out) == SelectSeq(out.value.map.layers, LAMBDA layer : IsGenerated(Prop(layer, "id")))

\* the entries of resource.maplayers whose msId is the id of none of the given layers
EntriesNotIn(layers) ==
    SelectSeq(layerInput.resource.maplayers,
        LAMBDA mLayer : \A i \in DOMAIN layers :
            Prop(layers[i], "id") = Nil \/ MsId(mLayer) # layers[i].id)

SaveAndLoadCalls == {i \in DOMAIN layerOut : layerOut[i].fn = "saveAndLoad"}

\* the layers of the blob outside the background group
OtherLayers == SelectSeq(BlobLayers, LAMBDA layer : ~IsBackground(layer))

CarriesMapLayer(layer) ==
    Has(layer, "extendedParams") /\ Has(layer.extendedParams, "mapLayer")

\* the non-background layers all carry extendedParams.mapLayer and have distinct defined ids
SavedWithDistinctIds ==
    /\ \A i \in DOMAIN OtherLayers :
        CarriesMapLayer(OtherLayers[i]) /\ Prop(OtherLayers[i], "id") # Nil
    /\ \A i, j \in DOMAIN OtherLayers : i # j => OtherLayers[i].id # OtherLayers[j].id

\* the layers of a result after the background layers of the base configuration
AfterBackgrounds(out) ==
    SubSeq(out.value.map.layers,
           Len(SelectSeq(ConfigLayers(layerInput.baseConfig), IsBackground)) + 1,
           Len(out.value.map.layers))

\* the non-background layers come back with their ids, in their order, wms with its style
SameLayersAfter(out) ==
    LET after == AfterBackgrounds(out)
    IN  /\ Len(after) = Len(OtherLayers)
        /\ \A i \in DOMAIN OtherLayers :
            /\ Prop(after[i], "id") = OtherLayers[i].id
            /\ Prop(OtherLayers[i], "type") = "wms" =>
                Prop(after[i], "style") = IF Truthy(Prop(OtherLayers[i], "style"))
                                          THEN OtherLayers[i].style ELSE ""

(***************************************************************************)
(* C12 as stated: for map data whose non-background layers all carry       *)
(* extendedParams.mapLayer and have distinct defined ids, saving and       *)
(* loading yields, after the background layers, exactly the non-background *)
(* layers of data with the same ids in the same order, and every wms layer *)
(* keeps its style.                                                        *)
(***************************************************************************)
C12_RoundTripKeepsLayers ==
    \A c \in SaveAndLoadCalls :
        SavedWithDistinctIds => ~layerOut[c].throws /\ SameLayersAfter(layerOut[c])

(***************************************************************************)
(* C12 amended: if, besides, no background layer that carries              *)
(* extendedParams.mapLayer has the id of a non-background layer, saving    *)
(* and loading yields, after the background layers, exactly the            *)
(* non-background layers of data with the same ids in the same order, none *)
(* dropped and none added, and every wms layer keeps its style (a wms      *)
(* layer without a style gets the empty style).                            *)
(***************************************************************************)
C12_RoundTripKeepsLayersOfDistinctIds ==
    \A c \in SaveAndLoadCalls :
        (/\ SavedWithDistinctIds
         /\ \A i \in DOMAIN BlobLayers :
                (IsBackground(BlobLayers[i]) /\ CarriesMapLayer(BlobLayers[i])) =>
                    \A j \in DOMAIN OtherLayers :
                        Prop(BlobLayers[i], "id") # OtherLayers[j].id)
        => ~layerOut[c].throws /\ SameLayersAfter(layerOut[c])

C12_Witness ==
    \E c \in SaveAndLoadCalls :
        /\ SavedWithDistinctIds
        /\ Len(OtherLayers) = 3
        /\ Len(AfterBackgrounds(layerOut[c])) = 3
        /\ AfterBackgrounds(layerOut[c])[2].style = ""

(***************************************************************************)
(* DownloadResource: DownloadButton.  An optional object (a prop or a      *)
(* resource that may be null or undefined) is a sequence of length 0 or 1. *)
(***************************************************************************)
MaxClicks == 2

\* resource && resource.resource_type === DOCUMENT && resource.sourcetype === REMOTE
isDocumentExternalSource(resource) ==
    /\ resource # <<>>
    /\ Prop(resource[1], "resource_type") = ResourceTypes.DOCUMENT
    /\ Prop(resource[1], "sourcetype") = SOURCE_TYPES.REMOTE

\* resource?.download_urls, an array that is empty when missing
DownloadUrls(resource) ==
    IF resource # <<>> /\ Has(resource[1], "download_urls")
    THEN resource[1].download_urls ELSE <<>>

getDownloadUrlInfo(resource) ==
    LET hrefUrl == [url |-> IF resource = <<>> THEN Nil ELSE Prop(resource[1], "href"),
                    ajaxSafe |-> "false"]
        urls == DownloadUrls(resource)
        defaults == {i \in DOMAIN urls : Truthy(Prop(urls[i], "default"))}
        downloadData == IF Len(urls) = 1 THEN urls[1]
                        ELSE IF defaults # {} THEN urls[First(defaults)] ELSE <<>>
    IN  IF isDocumentExternalSource(resource) THEN hrefUrl
        ELSE IF urls # <<>> /\ DOMAIN downloadData # {}
        THEN [url |-> Prop(downloadData, "url"), ajaxSafe |-> Prop(downloadData, "ajax_safe")]
        ELSE hrefUrl

\* a variant of the test that lets the arcgis layers through
DownloadHiddenButArcgis(resource, isButton, isNotAjaxSafe, allowedSources) ==
    LET canDownload == Truthy(PermsIncludes(resource, "download_resourcebase"))
    IN  \/ DownloadUrls(resource) = <<>> /\ ~canDownload
        \/ ~canDownload
        \/ ~isButton /\ isNotAjaxSafe
        \/ Get(resource, "sourcetype") \notin allowedSources

\* the test of the first return null
DownloadHidden(resource, isButton, isNotAjaxSafe, allowedSources) ==
    LET canDownload == Truthy(PermsIncludes(resource, "download_resourcebase"))
    IN  \/ DownloadUrls(resource) = <<>> /\ ~canDownload
        \/ ~canDownload
        \/ ~isButton /\ isNotAjaxSafe
        \/ Get(resource, "ptype") \in {GXP_PTYPES.REST_MAP, GXP_PTYPES.REST_IMG}
        \/ Get(resource, "sourcetype") \notin allowedSources

\* a variant of the click handler that does not look at downloading
OnClickAlways(downloading, resource) == <<resource>>

\* () => downloading ? null : onAction(_resource): the calls of onAction a click makes
OnClick(downloading, resource) ==
    IF Truthy(downloading) THEN <<>> ELSE <<resource>>

\* what a render returns: <<>> for null, else the element
DownloadButton(props) ==
    LET renderType == IF Has(props, "renderType") THEN props.renderType ELSE "button"
        downloadMsgId == IF Has(props, "downloadMsgId") THEN props.downloadMsgId
                         ELSE "gnviewer.download"
        allowedSources == IF Has(props, "allowedSources") THEN props.allowedSources
                          ELSE {SOURCE_TYPES.LOCAL, SOURCE_TYPES.REMOTE}
        isButton == renderType # "menuItem"
        resource == IF props.resource # <<>> THEN props.resource ELSE props.resourceData
        downloadInfo == getDownloadUrlInfo(resource)
        isExternal == isDocumentExternalSource(resource)
        isNotAjaxSafe == ~Truthy(downloadInfo.ajaxSafe)
        common == SpreadAll(<<
            [component |-> renderType],
            When(isButton, [variant |-> Prop(props, "variant"), size |-> Prop(props, "size")]),
            When(props.showIcon, [tooltipId |-> downloadMsgId])>>)
    IN  IF DownloadHidden(resource, isButton, isNotAjaxSafe, allowedSources) THEN <<>>
        ELSE IF isNotAjaxSafe
        THEN IF Truthy(downloadInfo.url)
             THEN <<Spread(common,
                    [download |-> TRUE, href |-> downloadInfo.url, target |-> "_blank",
                     rel |-> "noopener noreferrer",
                     children |-> IF props.showIcon
                                  THEN IF isExternal THEN "external-link" ELSE "download"
                                  ELSE downloadMsgId])>>
             ELSE <<>>
        ELSE <<Spread(common,
                [disabled |-> Truthy(props.downloading),
                 onClick |-> [downloading |-> props.downloading, resource |-> resource],
                 children |-> IF props.showIcon THEN "download" ELSE downloadMsgId])>>


DownloadUrlsInputs ==
    {<<>>,
     <<[url |-> "http://gs/download/1", ajax_safe |-> "true"]>>,
     <<[url |-> "http://gs/download/1", ajax_safe |-> "false"]>>,
     <<[ajax_safe |-> "false"]>>,
     <<[url |-> "http://gs/download/1", ajax_safe |-> "false"],
       [url |-> "http://gs/download/2", ajax_safe |-> "true", default |-> "true"]>>}

DownloadResources ==
    [resource_type : {ResourceTypes.DATASET, ResourceTypes.DOCUMENT},
     sourcetype : {SOURCE_TYPES.LOCAL, SOURCE_TYPES.REMOTE, Nil},
     ptype : {GXP_PTYPES.WMS, GXP_PTYPES.REST_MAP},
     perms : {<<>>, <<{"view_resourcebase"}>>,
              <<{"view_resourcebase", "download_resourcebase"}>>},
     download_urls : DownloadUrlsInputs,
     href : {Nil, "http://remote/document.pdf"}]

\* the resource of the store when the prop gives another one
StoreResource ==
    [resource_type |-> ResourceTypes.MAP, sourcetype |-> SOURCE_TYPES.LOCAL,
     ptype |-> Nil, perms |-> <<{"download_resourcebase"}>>,
     download_urls |-> <<[url |-> "http://gs/download/map", ajax_safe |-> "true"]>>,
     href |-> Nil]

DownloadPropsInputs ==
    {SpreadAll(<<[resource |-> given.resource, resourceData |-> given.resourceData,
                  showIcon |-> showIcon, downloading |-> "false",
                  variant |-> "primary", size |-> "sm"],
                 renderType, allowedSources>>) :
        given \in {[resource |-> <<>>, resourceData |-> <<>>]}
                  \cup {[resource |-> <<r>>, resourceData |-> <<StoreResource>>] :
                            r \in DownloadResources}
                  \cup {[resource |-> <<>>, resourceData |-> <<r>>] : r \in DownloadResources},
        showIcon \in BOOLEAN,
        renderType \in {<<>>, [renderType |-> "menuItem"]},
        allowedSources \in {<<>>, [allowedSources |-> {SOURCE_TYPES.LOCAL}]}}

\* the first render
DownloadInit ==
    /\ NonDownloadIdle
    /\ downloadProps \in DownloadPropsInputs
    /\ downloadElement = DownloadButton(downloadProps)
    /\ downloadClicks = <<>>

\* processingDownload of the store changes and the component renders again
ProcessingDownload(downloading) ==
    /\ downloading # downloadProps.downloading
    /\ downloadProps' = [downloadProps EXCEPT !.downloading = downloading]
    /\ downloadElement' = DownloadButton(downloadProps')
    /\ UNCHANGED downloadClicks
    /\ UNCHANGED nonDownloadVars

\* a click on the control with the handler; the browser may keep a click on a
\* disabled control from the handler
ClickDownload(delivered) ==
    /\ Len(downloadClicks) < MaxClicks
    /\ downloadElement # <<>>
    /\ Has(downloadElement[1], "onClick")
    /\ delivered \/ downloadElement[1].disabled
    /\ downloadClicks' = Append(downloadClicks,
            [href |-> Nil, downloading |-> downloadProps.downloading,
             calls |-> IF delivered
                       THEN OnClick(downloadElement[1].onClick.downloading,
                                    downloadElement[1].onClick.resource)
                       ELSE <<>>])
    /\ UNCHANGED <<downloadProps, downloadElement>>
    /\ UNCHANGED nonDownloadVars

\* a click on the link opens the url: no handler
ClickLink ==
    /\ Len(downloadClicks) < MaxClicks
    /\ downloadElement # <<>>
    /\ Has(downloadElement[1], "href")
    /\ downloadClicks' = Append(downloadClicks,
            [href |-> downloadElement[1].href, downloading |-> downloadProps.downloading,
             calls |-> <<>>])
    /\ UNCHANGED <<downloadProps, downloadElement>>
    /\ UNCHANGED nonDownloadVars

DownloadNext ==
    \/ \E downloading \in {"true", "false"} : ProcessingDownload(downloading)
    \/ \E delivered \in BOOLEAN : ClickDownload(delivered)
    \/ ClickLink

SpecDownload == DownloadInit /\ [][DownloadNext]_vars

(***************************************************************************)
(* C13: DownloadButton renders a download control exactly when the         *)
(* resource has the 'download_resourcebase' permission, its ptype is not   *)
(* the ArcGIS REST source type, its sourcetype is one of allowedSources,   *)
(* the render type is not a menu item with a download that is not          *)
(* ajax-safe and, when the download is not ajax-safe, there is a download  *)
(* url; in every other case nothing is rendered.                           *)
(***************************************************************************)
C13_RendersOnlyDownloadable ==
    LET given == IF downloadProps.resource # <<>> THEN downloadProps.resource
                 ELSE downloadProps.resourceData
        info == getDownloadUrlInfo(given)
        ajaxSafe == info.ajaxSafe = "true"
        sources == IF Has(downloadProps, "allowedSources") THEN downloadProps.allowedSources
                   ELSE {"LOCAL", "REMOTE"}
        menuItem == Has(downloadProps, "renderType") /\ downloadProps.renderType = "menuItem"
    IN  downloadElement # <<>> <=>
            /\ given # <<>>
            /\ given[1].perms # <<>>
            /\ "download_resourcebase" \in given[1].perms[1]
            /\ given[1].ptype # "gxp_arcrestsource"
            /\ given[1].sourcetype \in sources
            /\ ~(menuItem /\ ~ajaxSafe)
            /\ ~ajaxSafe => info.url \notin {Nil, ""}

C13_Witness ==
    /\ downloadElement # <<>>
    /\ Has(downloadElement[1], "href")
    /\ downloadProps.resource # <<>>
    /\ downloadProps.resource[1].resource_type = "document"
    /\ downloadProps.resource[1].sourcetype = "REMOTE"

(***************************************************************************)
(* C20: while a download is being processed the ajax-safe download control *)
(* is disabled and a click on it does not call onAction; when no download  *)
(* is being processed a click calls onAction exactly once, with the        *)
(* resource given by the resource prop, or with the resource data of the   *)
(* store when that prop is null or undefined.                              *)
(***************************************************************************)
C20_ClickCallsOnActionOnce ==
    /\ (downloadElement # <<>> /\ Has(downloadElement[1], "onClick")) =>
            downloadElement[1].disabled = (downloadProps.downloading = "true")
    /\ \A i \in DOMAIN downloadClicks :
        downloadClicks[i].href = Nil =>
            downloadClicks[i].calls =
                IF downloadClicks[i].downloading = "true" THEN <<>>
                ELSE IF downloadProps.resource # <<>> THEN <<downloadProps.resource>>
                ELSE <<downloadProps.resourceData>>

C20_Witness ==
    /\ Len(downloadClicks) = 2
    /\ downloadClicks[1].downloading = "true"
    /\ downloadClicks[1].calls = <<>>
    /\ downloadClicks[2].downloading = "false"
    /\ downloadProps.resource = <<>>
    /\ downloadClicks[2].calls = <<downloadProps.resourceData>>

(***************************************************************************)
(* resourceToLayerConfig: the bbox of the layer.                           *)
(***************************************************************************)
\* the calls of resourceToLayerConfig that returned
LayerConfigCalls ==
    {i \in DOMAIN layerOut : layerOut[i].fn = "resourceToLayerConfig" /\ ~layerOut[i].throws}

\* extent.coords of the resource is not empty and within the maximum extent of WGS84
ExtentInWGS84 ==
    LET coords == layerInput.resource.extent.coords
    IN  /\ coords # <<>>
        /\ coords[1] >= -180 /\ coords[2] >= -90 /\ coords[3] <= 180 /\ coords[4] <= 90

\* the layer has the bbox of the extent exactly when the extent is within WGS84, and
\* a wms layer has bboxError true exactly when it is not
BboxFromExtent(layer) ==
    LET coords == layerInput.resource.extent.coords
    IN  /\ Has(layer, "bbox") = ExtentInWGS84
        /\ ExtentInWGS84 =>
            layer.bbox = [crs |-> "EPSG:4326",
                          bounds |-> [minx |-> coords[1], miny |-> coords[2],
                                      maxx |-> coords[3], maxy |-> coords[4]]]
        /\ layer.type = "wms" => Has(layer, "bboxError") = ~ExtentInWGS84
        /\ Has(layer, "bboxError") => layer.bboxError = TRUE

(***************************************************************************)
(* C14 as stated: resourceToLayerConfig puts a bbox (crs EPSG:4326, bounds *)
(* equal to extent.coords) in the layer exactly when extent.coords is      *)
(* non-empty and within [-180, -90, 180, 90]; otherwise the layer has no   *)
(* bbox, and a wms layer has bboxError true exactly in that case.          *)
(***************************************************************************)
C14_BboxOnlyWithinWGS84 ==
    \A c \in LayerConfigCalls : BboxFromExtent(layerOut[c].value)

(***************************************************************************)
(* C14 amended: the same, except for a wms layer of a resource whose data  *)
(* sets bbox or bboxError: resource.data is spread over the wms layer      *)
(* last and replaces what the extent gave.                                 *)
(***************************************************************************)
C14_BboxOnlyWithinWGS84UnlessInData ==
    \A c \in LayerConfigCalls :
        LET data == DataOf(layerInput.resource)
        IN  ~(/\ layerOut[c].value.type = "wms"
              /\ (Has(data, "bbox") \/ Has(data, "bboxError")))
            => BboxFromExtent(layerOut[c].value)

C14_Witness ==
    \E c \in LayerConfigCalls :
        /\ layerOut[c].value.type = "wms"
        /\ layerInput.resource.extent.coords = <<-10, -20, 181, 40>>
        /\ Has(layerOut[c].value, "bboxError")
        /\ ~Has(layerOut[c].value, "bbox")

(***************************************************************************)
(* gnSaveContent: the default style of a dataset.                          *)
(***************************************************************************)
\* the saves of a dataset with an id that gnSaveContent has started
DatasetSaves ==
    {n \in 1..nSave : store.type = ResourceTypes.DATASET /\ Truthy(SaveContentAt(n).action.id)}

\* the positions of the log where save n sent the request of this name
RequestsAt(n, name) ==
    {i \in DOMAIN log : IsRequest(log[i], "save", name) /\ log[i].n = n}

\* the positions of the log where save n received the result of this request
ResponsesAt(n, name, result) ==
    {i \in DOMAIN log : /\ log[i].kind = "response" /\ log[i].epic = "save"
                        /\ log[i].n = n /\ log[i].type = name /\ log[i].arg = result}

\* the edited layer has a first available style and the selected node has another
DefaultStyleChanged ==
    store.initalStyleName # Nil /\ store.initalStyleName # store.currentStyleName

(***************************************************************************)
(* C15: when a dataset with an id is saved, the default-style request is   *)
(* sent exactly when the style was modified; the dataset update and the    *)
(* time-series update are then sent only after it has succeeded, and when  *)
(* it fails they are never sent and saveError follows at once.             *)
(***************************************************************************)
C15_DefaultStyleBeforeDatasetUpdate ==
    \A n \in DatasetSaves :
        /\ ~DefaultStyleChanged => RequestsAt(n, "updateDefaultStyle") = {}
        /\ DefaultStyleChanged =>
            /\ Cardinality(RequestsAt(n, "updateDefaultStyle")) = 1
            /\ \A i \in RequestsAt(n, "updateDataset") \cup RequestsAt(n, "updateDatasetTimeSeries") :
                \E j \in ResponsesAt(n, "updateDefaultStyle", "ok") : j < i
            /\ \A j \in ResponsesAt(n, "updateDefaultStyle", "ok") :
                /\ RequestsAt(n, "updateDataset") # {}
                /\ RequestsAt(n, "updateDatasetTimeSeries") # {}
            /\ \A j \in ResponsesAt(n, "updateDefaultStyle", "error") :
                /\ RequestsAt(n, "updateDataset") = {}
                /\ RequestsAt(n, "updateDatasetTimeSeries") = {}
                /\ j < Len(log) /\ IsEmit(log[j + 1], "save", "saveError") /\ log[j + 1].n = n
                /\ \A k \in (j + 2)..Len(log) :
                    log[k].n = n /\ log[k].epic = "save" => log[k].type = "errorNotification"

C15_Witness ==
    \E n \in DatasetSaves :
        /\ DefaultStyleChanged
        /\ ResponsesAt(n, "updateDefaultStyle", "ok") # {}
        /\ RequestsAt(n, "updateDataset") # {}

(***************************************************************************)
(* gnSaveContent: the additional actions of the response.                  *)
(***************************************************************************)
\* the actions SaveAPI appends to the saved resource
AdditionalTypes == {"updateNode", "updateSettingsParams", "setSelectedLayer"}

\* the positions of the log where save n emitted an action of this type
EmitsAt(n, type) ==
    {i \in DOMAIN log : IsEmit(log[i], "save", type) /\ log[i].n = n}

\* every request save n has sent has been answered without an error
AllAnswered(n) ==
    /\ \A i \in DOMAIN log :
        (log[i].kind = "request" /\ log[i].epic = "save" /\ log[i].n = n
         /\ log[i].type \in SaveRequests) => ResponsesAt(n, log[i].type, "ok") # {}
    /\ \E i \in DOMAIN log :
        log[i].kind = "request" /\ log[i].epic = "save" /\ log[i].n = n
        /\ log[i].type \in ResourceUpdateRequests

(***************************************************************************)
(* C16: updateNode, updateSettingsParams and setSelectedLayer are emitted  *)
(* only by a save without reload whose requests all succeeded, and after   *)
(* saveSuccess, setResource and updateResource of that save, in this       *)
(* order; the saved resource itself is never emitted as an action.         *)
(***************************************************************************)
C16_AdditionalActionsAfterSuccess ==
    \A i \in DOMAIN log :
        /\ log[i].kind = "emit" /\ log[i].epic = "save" => log[i].type # "resource"
        /\ (log[i].kind = "emit" /\ log[i].epic = "save" /\ log[i].type \in AdditionalTypes) =>
            LET n == log[i].n
            IN  /\ ~SaveContentAt(n).action.reload
                /\ AllAnswered(n)
                /\ EmitsAt(n, "saveError") = {}
                /\ \E j1 \in EmitsAt(n, "saveSuccess"), j2 \in EmitsAt(n, "setResource"),
                      j3 \in EmitsAt(n, "updateResource") :
                        j1 < j2 /\ j2 < j3 /\ j3 < i

C16_Witness ==
    \E n \in 1..nSave :
        /\ EmitsAt(n, "updateNode") # {}
        /\ EmitsAt(n, "setSelectedLayer") # {}
        /\ EmitsAt(n, "saveSuccess") # {}

(***************************************************************************)
(* gnSetMapThumbnail                                                       *)
(***************************************************************************)
\* SET_MAP_THUMBNAIL actions dispatched in one run
MaxThumbnails == 2

\* getResourceData(state): <<>> when the state has no resource data
ThumbResources ==
    {<<>>,
     <<[pk |-> "pk1", resource_type |-> "map", thumbnail_url |-> "/thumbs/old.png"]>>,
     <<[pk |-> "pk1", resource_type |-> "dataset", thumbnail_url |-> "/thumbs/old.png"]>>,
     <<[pk |-> "pk1", title |-> "Map"]>>}

ThumbStates == [resource : ThumbResources, resourceId : {"pk1"}]

\* action.bbox: Object.values(bounds) in the order of the keys
ThumbnailBboxes ==
    {[crs |-> "EPSG:4326", bounds |-> <<-10, -20, 30, 40>>],
     [crs |-> "EPSG:3857", bounds |-> <<1, 2, 3, 4>>]}

\* what setMapThumbnail resolves to, and Math.random()
ThumbnailResults == {[thumbnail_url |-> "/thumbs/new.png"], [message |-> "done"]}

RandomNumbers == {"0.25", "0.75"}

\* currentResource?.resource_type || 'map'
ThumbnailContentType(currentResource) ==
    IF currentResource # <<>> /\ Truthy(Prop(currentResource[1], "resource_type"))
    THEN currentResource[1].resource_type
    ELSE "map"

\* the body of the request
ThumbnailBody(action) ==
    [srid |-> action.bbox.crs,
     bbox |-> <<action.bbox.bounds[3], action.bbox.bounds[1],
                action.bbox.bounds[4], action.bbox.bounds[2]>>]

\* { ...currentResource, thumbnail_url: `${res.thumbnail_url}?${randomNumber}` }
WithThumbnail(currentResource, res, randomNumber) ==
    Spread(IF currentResource = <<>> THEN <<>> ELSE currentResource[1],
           [thumbnail_url |-> Prop(res, "thumbnail_url") \o "?" \o randomNumber])

ThumbEmit(n, type, payload) ==
    [kind |-> "emit", n |-> n, type |-> type, payload |-> payload]

\* the switchMap after the request
ThumbnailSuccessActions(n, currentResource, res, randomNumber) ==
    <<ThumbEmit(n, "updateResourceProperties", WithThumbnail(currentResource, res, randomNumber)),
      ThumbEmit(n, "enableMapThumbnailViewer", [enabled |-> FALSE]),
      ThumbEmit(n, "updateResource", WithThumbnail(currentResource, res, randomNumber)),
      ThumbEmit(n, "clearSave", <<>>),
      ThumbEmit(n, "successNotification", [message |-> "gnviewer.thumbnailsaved"])>>

\* a variant that also closes the thumbnail viewer after an error
ThumbnailErrorActionsClosingViewer(n, error) ==
    <<ThumbEmit(n, "saveError", [error |-> error.data]),
      ThumbEmit(n, "enableMapThumbnailViewer", [enabled |-> FALSE]),
      ThumbEmit(n, "errorNotification", [message |-> "gnviewer.thumbnailnotsaved"])>>

\* the catch of gnSetMapThumbnail
ThumbnailErrorActions(n, error) ==
    <<ThumbEmit(n, "saveError", [error |-> error.data]),
      ThumbEmit(n, "errorNotification", [message |-> "gnviewer.thumbnailnotsaved"])>>

ThumbInit ==
    /\ NonThumbIdle
    /\ thumbState \in ThumbStates
    /\ thumbSub = <<>>
    /\ thumbLog = <<>>
    /\ nThumb = 0

\* SET_MAP_THUMBNAIL: a newer action replaces the subscription of the older
DispatchSetMapThumbnail(action) ==
    /\ nThumb < MaxThumbnails
    /\ LET n == nThumb + 1
           currentResource == thumbState.resource
       IN  /\ nThumb' = n
           /\ thumbSub' = <<[n |-> n, currentResource |-> currentResource]>>
           /\ thumbLog' = thumbLog \o
                <<[kind |-> "action", n |-> n, type |-> "SET_MAP_THUMBNAIL",
                   payload |-> action],
                  [kind |-> "request", n |-> n, type |-> "setMapThumbnail",
                   payload |-> [id |-> thumbState.resourceId,
                                body |-> ThumbnailBody(action),
                                contentType |-> ThumbnailContentType(currentResource)]]>>
    /\ UNCHANGED thumbState
    /\ UNCHANGED nonThumbVars

\* the request of the live subscription resolves with res
ThumbnailResolved(res, randomNumber) ==
    /\ thumbSub # <<>>
    /\ LET sub == thumbSub[1]
       IN  thumbLog' = thumbLog \o
                <<[kind |-> "response", n |-> sub.n, type |-> "ok", payload |-> res]>>
                \o ThumbnailSuccessActions(sub.n, sub.currentResource, res, randomNumber)
    /\ thumbSub' = <<>>
    /\ UNCHANGED <<thumbState, nThumb>>
    /\ UNCHANGED nonThumbVars

\* the request of the live subscription is rejected
ThumbnailRejected(error) ==
    /\ thumbSub # <<>>
    /\ LET sub == thumbSub[1]
       IN  thumbLog' = thumbLog \o
                <<[kind |-> "response", n |-> sub.n, type |-> "error", payload |-> error]>>
                \o ThumbnailErrorActions(sub.n, error)
    /\ thumbSub' = <<>>
    /\ UNCHANGED <<thumbState, nThumb>>
    /\ UNCHANGED nonThumbVars

ThumbNext ==
    \/ \E action \in [bbox : ThumbnailBboxes] : DispatchSetMapThumbnail(action)
    \/ \E res \in ThumbnailResults, randomNumber \in RandomNumbers :
            ThumbnailResolved(res, randomNumber)
    \/ \E error \in Errors : ThumbnailRejected(error)

SpecThumb == ThumbInit /\ [][ThumbNext]_vars

\* what the epic emitted for its n-th action, in order
ThumbEmitsOf(n) ==
    SelectSeq(thumbLog, LAMBDA e : e.kind = "emit" /\ e.n = n)

\* how the request of the n-th action ended for the epic: "ok", "error" or "none"
ThumbOutcome(n) ==
    IF \E i \in DOMAIN thumbLog : thumbLog[i].kind = "response" /\ thumbLog[i].n = n
    THEN thumbLog[CHOOSE i \in DOMAIN thumbLog :
                    thumbLog[i].kind = "response" /\ thumbLog[i].n = n].type
    ELSE "none"

TypesOf(emits) == [i \in DOMAIN emits |-> emits[i].type]

(***************************************************************************)
(* C17: for every SET_MAP_THUMBNAIL whose request succeeds the epic emits  *)
(* updateResourceProperties, enableMapThumbnailViewer(false),              *)
(* updateResource, clearSave and a success notification, in this order;    *)
(* when the request fails it emits saveError and an error notification     *)
(* and nothing else.                                                       *)
(***************************************************************************)
C17_ThumbnailOutcomes ==
    \A n \in 1..nThumb :
        LET emits == ThumbEmitsOf(n)
        IN  /\ ThumbOutcome(n) = "ok" =>
                /\ TypesOf(emits) = <<"updateResourceProperties", "enableMapThumbnailViewer",
                                      "updateResource", "clearSave", "successNotification">>
                /\ emits[2].payload.enabled = FALSE
                /\ emits[1].payload = emits[3].payload
                /\ emits[1].payload.thumbnail_url # "/thumbs/old.png"
            /\ ThumbOutcome(n) = "error" =>
                TypesOf(emits) = <<"saveError", "errorNotification">>
            /\ ThumbOutcome(n) = "none" => emits = <<>>

C17_Witness ==
    \E n \in 1..nThumb, m \in 1..nThumb :
        /\ ThumbOutcome(n) = "ok" /\ Len(ThumbEmitsOf(n)) = 5
        /\ ThumbOutcome(m) = "error" /\ Len(ThumbEmitsOf(m)) = 2

(***************************************************************************)
(* toMapStoreMapConfig: the layers of the blob and resource.maplayers.     *)
(***************************************************************************)
\* the entries of resource.maplayers whose extra_params.msId is the id of the layer
MapLayersOf(layer) ==
    SelectSeq(layerInput.resource.maplayers,
        LAMBDA mLayer : /\ Prop(layer, "id") # Nil
                        /\ Has(mLayer, "extra_params")
                        /\ Prop(mLayer.extra_params, "msId") = layer.id)

\* the layer is not removed: it has a map layer or carries none
Stays(layer) == MapLayersOf(layer) # <<>> \/ ~CarriesMapLayer(layer)

\* the place of the i-th non-background layer of the blob among those that stay
PlaceOf(i) == Cardinality({j \in 1..i : Stays(OtherLayers[j])})

\* the layers of a result between the background layers and the added layers
KeptLayers(out) ==
    SubSeq(out.value.map.layers,
           Len(SelectSeq(ConfigLayers(layerInput.baseConfig), IsBackground)) + 1,
           Len(out.value.map.layers) - Len(AddedLayers(out)))

ExtendedParamsOf(layer) == IF Has(layer, "extendedParams") THEN layer.extendedParams ELSE <<>>

\* after is the layer with the map layer in extendedParams.mapLayer and, when
\* it is wms, the current style of the map layer unless that is empty
TakesMapLayer(layer, after, mapLayer) ==
    /\ Omit(after, {"style", "extendedParams"}) = Omit(layer, {"style", "extendedParams"})
    /\ after.extendedParams.mapLayer = mapLayer
    /\ Omit(after.extendedParams, {"mapLayer"}) = Omit(ExtendedParamsOf(layer), {"mapLayer"})
    /\ IF Prop(layer, "type") = "wms"
       THEN after.style = IF Prop(mapLayer, "current_style") \notin {Nil, ""}
                          THEN mapLayer.current_style
                          ELSE IF Prop(layer, "style") \notin {Nil, ""}
                          THEN layer.style ELSE ""
       ELSE Has(after, "style") = Has(layer, "style")
            /\ Prop(after, "style") = Prop(layer, "style")

\* as many layers are kept as stay
AllThatStayKept(out) ==
    Len(KeptLayers(out)) = Cardinality({i \in DOMAIN OtherLayers : Stays(OtherLayers[i])})

(***************************************************************************)
(* C18 as stated: a non-background layer of the blob that carries          *)
(* extendedParams.mapLayer and has no map layer is removed; one without    *)
(* extendedParams.mapLayer is always kept unchanged; any other layer keeps *)
(* its position, gets the matching map layer in extendedParams.mapLayer    *)
(* and, if it is wms, its current_style when that is not empty.            *)
(***************************************************************************)
C18_LayersReconciled ==
    \A c \in MapConfigCalls :
        /\ AllThatStayKept(layerOut[c])
        /\ \A i \in DOMAIN OtherLayers :
            LET layer == OtherLayers[i]
                after == KeptLayers(layerOut[c])[PlaceOf(i)]
            IN  Stays(layer) =>
                    IF ~CarriesMapLayer(layer) THEN after = layer
                    ELSE TakesMapLayer(layer, after, MapLayersOf(layer)[1])

(***************************************************************************)
(* C18 amended: a non-background layer of the blob whose id is the msId of *)
(* no map layer is removed if it carries extendedParams.mapLayer and kept  *)
(* unchanged if it does not; a layer whose id is the msId of a map layer,  *)
(* whether it carried extendedParams.mapLayer or not, keeps its position,  *)
(* gets the first such map layer in extendedParams.mapLayer and, if it is  *)
(* wms, its current_style when that is not empty.                          *)
(***************************************************************************)
C18_MatchedLayersReconciled ==
    \A c \in MapConfigCalls :
        /\ AllThatStayKept(layerOut[c])
        /\ \A i \in DOMAIN OtherLayers :
            LET layer == OtherLayers[i]
                after == KeptLayers(layerOut[c])[PlaceOf(i)]
            IN  Stays(layer) =>
                    IF MapLayersOf(layer) = <<>> THEN after = layer
                    ELSE TakesMapLayer(layer, after, MapLayersOf(layer)[1])

C18_Witness ==
    \E c \in MapConfigCalls :
        /\ \E i \in DOMAIN OtherLayers : ~Stays(OtherLayers[i])
        /\ \E i \in DOMAIN OtherLayers :
            /\ Stays(OtherLayers[i])
            /\ MapLayersOf(OtherLayers[i]) # <<>>
            /\ OtherLayers[i].type = "wms"
            /\ KeptLayers(layerOut[c])[PlaceOf(i)].style = "geonode:lines"
            /\ OtherLayers[i].style # "geonode:lines"

(***************************************************************************)
(* toMapStoreMapConfig: the background layers.                             *)
(***************************************************************************)
\* the background layers of the base configuration the calls are made with
BaseBackgrounds ==
    SelectSeq(ConfigLayers(layerInput.baseConfig),
              LAMBDA layer : Prop(layer, "group") = "background")

\* equal in type, name, source, provider and url
SameBackground(aLayer, bLayer) ==
    \A key \in {"type", "name", "source", "provider", "url"} :
        Prop(aLayer, key) = Prop(bLayer, key)

\* the visible background layers of the blob that equal a base background
SavedBackgrounds ==
    SelectSeq(BlobLayers,
        LAMBDA layer : /\ Prop(layer, "group") = "background"
                       /\ Has(layer, "visibility") /\ layer.visibility
                       /\ \E i \in DOMAIN BaseBackgrounds :
                            SameBackground(layer, BaseBackgrounds[i]))

(***************************************************************************)
(* C19: the result of toMapStoreMapConfig starts with the background       *)
(* layers of baseConfig, in their order, and has no other background       *)
(* layer; when the blob has a visible background layer equal to a base     *)
(* background, a base background is visible exactly when it equals the     *)
(* first such layer, and otherwise the base layers are left as they are.   *)
(***************************************************************************)
C19_BackgroundsFromBaseConfig ==
    \A c \in MapConfigCalls :
        LET layers == layerOut[c].value.map.layers
            nb == Len(BaseBackgrounds)
        IN  /\ Len(layers) >= nb
            /\ \A i \in (nb + 1)..Len(layers) : Prop(layers[i], "group") # "background"
            /\ \A i \in 1..nb :
                /\ Omit(layers[i], {"visibility"}) = Omit(BaseBackgrounds[i], {"visibility"})
                /\ IF SavedBackgrounds = <<>>
                   THEN layers[i] = BaseBackgrounds[i]
                   ELSE layers[i].visibility = SameBackground(BaseBackgrounds[i], SavedBackgrounds[1])

C19_Witness ==
    \E c \in MapConfigCalls :
        /\ SavedBackgrounds # <<>>
        /\ Len(BaseBackgrounds) = 2
        /\ BaseBackgrounds[1].visibility /\ ~BaseBackgrounds[2].visibility
        /\ ~layerOut[c].value.map.layers[1].visibility
        /\ layerOut[c].value.map.layers[2].visibility
        /\ Len(layerOut[c].value.map.layers) > 2

(***************************************************************************)
(* gnSaveContent, gnSaveDirectContent: savingResource.                     *)
(***************************************************************************)
\* the positions of the log that belong to the n-th action of an epic, the
\* action itself excluded
HandledAt(epic, n) ==
    {i \in DOMAIN log : log[i].epic = epic /\ log[i].n = n /\ log[i].kind # "action"}

\* the positions of the log where the epics received an action
ActionsAt == {i \in DOMAIN log : log[i].kind = "action"}

(***************************************************************************)
(* C21: for every SAVE_CONTENT and every SAVE_DIRECT_CONTENT the handler   *)
(* emits savingResource once and first: before it sends a request, before  *)
(* any response of that save is processed and before any saveSuccess,      *)
(* saveError, saveContent or notification of that save.                    *)
(***************************************************************************)
C21_SavingResourceFirst ==
    \A k \in ActionsAt :
        LET epic == log[k].epic
            n == log[k].n
        IN  /\ k < Len(log)
            /\ IsEmit(log[k + 1], epic, "savingResource") /\ log[k + 1].n = n
            /\ \A i \in HandledAt(epic, n) :
                /\ i >= k + 1
                /\ i > k + 1 => ~IsEmit(log[i], epic, "savingResource")

C21_Witness ==
    /\ \E k \in ActionsAt :
        /\ log[k].epic = "direct"
        /\ \E i \in HandledAt("direct", log[k].n) : IsEmit(log[i], "direct", "saveContent")
    /\ \E k \in ActionsAt :
        /\ log[k].epic = "save"
        /\ \E i \in HandledAt("save", log[k].n) : IsEmit(log[i], "save", "saveSuccess")

(***************************************************************************)
(* gnSaveContent: the outcome of a save.                                   *)
(***************************************************************************)
\* a request of the live save that is awaited is answered
SaveRequestSettles ==
    \E name \in SaveRequests, ok \in BOOLEAN, error \in Errors : SaveResponse(name, ok, error)

\* the save epics when every request that is awaited settles
SpecFair ==
    /\ SaveInit
    /\ [][SaveNext]_vars
    /\ WF_vars(SaveRequestSettles)
    /\ WF_vars(\E ok \in BOOLEAN : CompactPermissionsResponse(ok))
    /\ WF_vars(\E i \in 1..3, ok \in BOOLEAN, error \in Errors : DirectResponse(i, ok, error))

\* the n-th SAVE_CONTENT has been received and does not ask for a reload
SavingWithoutReload(n) ==
    n <= nSave /\ ~SaveContentAt(n).action.reload

\* saveSuccess or saveError has been emitted for the n-th SAVE_CONTENT
SaveOutcome(n) ==
    EmitsAt(n, "saveSuccess") # {} \/ EmitsAt(n, "saveError") # {}

\* a later SAVE_CONTENT has replaced the n-th
Superseded(n) == nSave > n

\* the factory of the n-th save returned false: a document without an id
NothingToAwait(n) ==
    store.type = ResourceTypes.DOCUMENT /\ ~Truthy(SaveContentAt(n).action.id)

(***************************************************************************)
(* C22: every SAVE_CONTENT with reload false that no later SAVE_CONTENT    *)
(* replaces, and whose requests all settle, leads to saveSuccess or        *)
(* saveError, for every resource type, with and without an id.             *)
(***************************************************************************)
C22_EverySaveEnds ==
    \A n \in 1..MaxDispatch :
        SavingWithoutReload(n) ~> (SaveOutcome(n) \/ Superseded(n))

\* the same for every save but that of a document without an id
C22_EverySaveWithRequestsEnds ==
    \A n \in 1..MaxDispatch :
        (SavingWithoutReload(n) /\ ~NothingToAwait(n)) ~> (SaveOutcome(n) \/ Superseded(n))

\* a save of a document without an id at rest: savingResource and nothing else
C22_SavingForever ==
    \E n \in 1..nSave :
        /\ SavingWithoutReload(n) /\ NothingToAwait(n)
        /\ EmitsAt(n, "savingResource") # {}
        /\ ~SaveOutcome(n)
        /\ saveSub # <<>> /\ saveSub[1].phase = "never"

====
